---- MODULE Spec2Model ----
(***************************************************************************)
(* Model of paxml/eval_lib.py: the checkpoint-driven evaluate / decode     *)
(* loops (evaluate_pmap_model, evaluate_spmd_model, decode_pmap_model,     *)
(* decode_spmd_model), the decode pass over the decoder splits             *)
(* (decode_once_pmap_model, decode_once_spmd_model) and the tracker of the *)
(* best metric value (maybe_update_min_tracked_metric).                    *)
(***************************************************************************)
EXTENDS Integers, Sequences, FiniteSets, TLC

\* ------------------------------------------------------------------------
\* Bounds of the model and configuration values.
\* ------------------------------------------------------------------------

\* Number of checkpoints the trainer writes in a run.
MaxCheckpoints == 3

\* Loop iterations (passes) a host makes before the model stops following it.
MaxIterations == 3

\* Calls of the metric tracker in a run of the tracker alone.
MaxFeeds == 5

\* Decoder splits (input_p of the decode pass).
NumSplits == 2

\* The step budget of a split that has one (eval_loop_num_batches).
MaxBudget == 2

\* Decode passes of a run.
MaxPasses == 3

\* Writes of one output file that are counted.
MaxWrites == 2

\* The largest weighted sum and weight of the metric of one batch.
MaxTotal == 2

MaxWeight == 2

\* task_p.train.save_interval_steps
save_interval_steps == 10

\* task_p.train.num_train_steps
num_train_steps == MaxCheckpoints * save_interval_steps

\* Python's None where the code holds an Optional[int] step.
None == -1

\* jax.process_index() of the hosts of a multi-host run.
Hosts == {0, 1}

VARIABLES
  cfg,                   \* the run's configuration (loop, task_p flags, store behaviour)
  checkpoints,           \* steps of the checkpoints completed in checkpoint_dir
  pc,                    \* per host: position in the loop
  checkpoint_step,       \* per host: step listed before the first restore
  last_checkpoint_step,  \* per host
  new_checkpoint_step,   \* per host
  model_states,          \* per host: the replicated / partitioned TrainState
  iteration,             \* per host: passes started
  decision,              \* per host: the stop decision of the last iteration
  tracker,               \* the status file of the metric tracker
  tracker_ckpt,          \* the checkpoint saved in the tracker directory
  tracker_saves,         \* number of checkpoints saved in the tracker directory
  tracker_writers,       \* the hosts that wrote in the tracker directory
  fed,                   \* the calls of the tracker: value, and the record before
  pending,               \* the hosts that still make the current call
  input_p,               \* per decoder split: step budget and batches of the input
  inputs,                \* per host and split: batches the host's input yields
  input_pos,             \* per host and split: batches drawn since the last reset
  decoder_out,           \* per split and step: the persisted decoder outputs
  out_writes,            \* per split and step: writes of the decoder outputs
  out_writers,           \* the hosts that wrote decoder outputs
  dpc,                   \* per host: position in the decode pass
  step_i,                \* step of the train state of the decode pass
  split,                 \* per host: the split of the pass
  step_num,              \* per host
  processed_decodes,     \* per host
  executor_calls,        \* per host: calls of the decode step for the split
  existed,               \* outputs of the split were persisted when it started
  passes,                \* decode passes started
  returned,              \* per host: the lists the pass returns, one entry per split
  resets,                \* per host: resets of the input in the current split
  batches,               \* the metric updates of the batches of a split
  metrics,               \* the accumulated clu metrics of the split
  merged,                \* the batches merged into metrics, in order
  failed,                \* the batch whose merge raised, 0 when none did
  synced,                \* per host: barriers of the decode steps passed in the split
  stored,                \* per host: the batches stored in the accumulators of the split
  track_seen,            \* per host: the tracked metric is in the processed metrics
  tracker_call           \* the last call of the tracker made by a decode pass

loopVars == <<cfg, checkpoints, pc, checkpoint_step, last_checkpoint_step,
              new_checkpoint_step, model_states, iteration, decision>>

trackerVars == <<tracker, tracker_ckpt, tracker_saves, tracker_writers>>

callVars == <<fed, pending>>

decodeVars == <<input_p, inputs, input_pos, decoder_out, out_writes, out_writers, dpc,
                step_i, split, step_num, processed_decodes, executor_calls,
                existed, passes, returned>>

evalVars == <<resets>>

mergeVars == <<batches, metrics, merged, failed>>

accVars == <<synced, stored, track_seen, tracker_call>>

\* ------------------------------------------------------------------------
\* Train states.
\* ------------------------------------------------------------------------

TrainState(step, mdl_vars, opt_states) ==
  [step |-> step, mdl_vars |-> mdl_vars, opt_states |-> opt_states]

\* No train state: restore_checkpoint returned None, or the state was released.
NoState == TrainState(None, "none", "none")

\* trim_opt_states: opt_states={}
trim_opt_states(ms) == TrainState(ms.step, ms.mdl_vars, "empty")

\* extract_ema raises ValueError unless there is exactly one learner's
\* optimizer state holding the ema.
extract_ema_raises(ms) == ms.opt_states # "full"

extract_ema(ms) == TrainState(ms.step, "ema", "empty")

\* trainer_lib.initialize_model_state / initialize_partitioned_model_states:
\* a fresh state at step 0.
initialize_model_state(discard_opt_states) ==
  TrainState(0, "mdl_vars", IF discard_opt_states THEN "empty" ELSE "full")

\* ------------------------------------------------------------------------
\* The checkpoint store.
\* ------------------------------------------------------------------------

Max(S) == CHOOSE x \in S : \A y \in S : y <= x

Latest(S) == IF S = {} THEN None ELSE Max(S)

\* checkpoints.retrieve_latest_checkpoint_step(checkpoint_dir): the values a
\* listing can return.  A consistent store lists its newest completed step; an
\* eventually consistent one may list an older state of the directory.
retrieve_latest_checkpoint_step ==
  IF cfg.consistent THEN {Latest(checkpoints)} ELSE {None} \cup checkpoints

\* checkpoints.restore_checkpoint(..., step=step): the whole checkpoint
\* (variables and optimizer state) of that step, the latest one when step is
\* None, None when there is none.
restore_checkpoint(step, latest) ==
  LET s == IF step = None THEN latest ELSE step
  IN  IF s = None THEN NoState ELSE TrainState(s, "mdl_vars", "full")

\* The SPMD loops restore into train_state_global_shapes, which were created
\* with discard_opt_states = not use_ema.
restore_checkpoint_spmd(step, latest, use_ema) ==
  LET ms == restore_checkpoint(step, latest)
  IN  IF ms = NoState \/ use_ema THEN ms ELSE trim_opt_states(ms)

\* The trainer completes its next checkpoint.
SaveCheckpoint ==
  /\ Cardinality(checkpoints) < MaxCheckpoints
  /\ checkpoints' = checkpoints \cup {Latest(checkpoints \cup {0}) + save_interval_steps}
  /\ UNCHANGED <<cfg, pc, checkpoint_step, last_checkpoint_step,
                 new_checkpoint_step, model_states, iteration, decision>>
  /\ UNCHANGED trackerVars
  /\ UNCHANGED callVars
  /\ UNCHANGED mergeVars
  /\ UNCHANGED accVars
  /\ UNCHANGED decodeVars
  /\ UNCHANGED evalVars

\* ------------------------------------------------------------------------
\* The first restore of each loop.
\* ------------------------------------------------------------------------

IsPmap == cfg.mode \in {"evaluate_pmap", "decode_pmap"}
IsDecode == cfg.mode \in {"decode_pmap", "decode_spmd"}

\* track_metric as the loop hands it to get_model_states: False in
\* evaluate_pmap_model, bool(task_p.track_decoder_metric) in decode_pmap_model.
TrackMetricArg == cfg.mode = "decode_pmap" /\ cfg.track_metric

\* _PmapEvalRunner.get_model_states, from the restored state to the state
\* that is replicated.
PmapInitialState(restored, use_ema, track_metric) ==
  IF restored = NoState
    THEN initialize_model_state(~use_ema)
    ELSE IF ~use_ema /\ ~track_metric THEN trim_opt_states(restored) ELSE restored

get_model_states_raises(restored, use_ema, track_metric) ==
  use_ema /\ extract_ema_raises(PmapInitialState(restored, use_ema, track_metric))

get_model_states(restored, use_ema, track_metric) ==
  LET ms == PmapInitialState(restored, use_ema, track_metric)
  IN  IF use_ema THEN extract_ema(ms) ELSE ms

\* _SpmdEvalRunner.get_model_states_and_step_fn
SpmdInitialState(restored) ==
  IF restored = NoState THEN initialize_model_state(TRUE) ELSE restored

get_model_states_and_step_fn_raises(restored, use_ema) ==
  use_ema /\ extract_ema_raises(SpmdInitialState(restored))

get_model_states_and_step_fn(restored, use_ema) ==
  LET ms == SpmdInitialState(restored)
  IN  IF use_ema THEN extract_ema(ms) ELSE ms

\* ------------------------------------------------------------------------
\* The restore after the wait for a new checkpoint.
\* ------------------------------------------------------------------------

\* The step handed to restore_checkpoint: decode_spmd_model passes none.
RestoreStepArg(new_step) == IF cfg.mode = "decode_spmd" THEN None ELSE new_step

RestoredAfterWait(new_step, latest) ==
  IF IsPmap THEN restore_checkpoint(RestoreStepArg(new_step), latest)
  ELSE restore_checkpoint_spmd(RestoreStepArg(new_step), latest, cfg.use_ema)

\* evaluate_spmd_model keeps the restored state as it is when use_ema is off;
\* the other loops trim it, decode_pmap_model only when no metric is tracked.
TrimsAfterWait ==
  \/ cfg.mode = "evaluate_pmap"
  \/ cfg.mode = "decode_spmd"
  \/ cfg.mode = "decode_pmap" /\ ~cfg.track_metric

RestoreAfterWaitRaises(restored) ==
  \/ restored = NoState
  \/ cfg.use_ema /\ extract_ema_raises(restored)

RestoreAfterWait(restored) ==
  IF cfg.use_ema THEN extract_ema(restored)
  ELSE IF TrimsAfterWait THEN trim_opt_states(restored)
  ELSE restored

\* ------------------------------------------------------------------------
\* The tracker of the smallest value of task_p.track_decoder_metric.
\* ------------------------------------------------------------------------

\* Metric values, in tenths: 2.9, 3.0, 5.0 and 7.0.
Values == {29, 30, 50, 70}

\* sys.float_info.max, the initial_metric_value of the tracker.
float_info_max == 1000

\* trk_utils.MetricTracker(initial_metric_value=...) on an empty directory.
InitialTracker == [metric_value |-> float_info_max, global_step |-> None]

\* if jax.process_index() == 0:
IsTrackerHostAny(h) == TRUE

IsTrackerHost(h) == h = 0

\* if m_value < tracker.metric_value:
IsImprovementOrEqual(m_value, metric_value) == m_value <= metric_value

IsImprovement(m_value, metric_value) == m_value < metric_value

\* maybe_update_min_tracked_metric called on host h: tracker.update(...) and
\* checkpoints.save_checkpoint(unreplicated_model_states, tracker_dir_path).
maybe_update_min_tracked_metric(h, m_value, step, replicated_model_states) ==
  IF IsTrackerHost(h) /\ IsImprovement(m_value, tracker.metric_value)
    THEN /\ tracker' = [metric_value |-> m_value, global_step |-> step]
         /\ tracker_ckpt' = replicated_model_states
         /\ tracker_saves' = tracker_saves + 1
         /\ tracker_writers' = tracker_writers \cup {h}
    ELSE UNCHANGED <<tracker, tracker_ckpt, tracker_saves, tracker_writers>>

\* The step and the state of the k-th pass that calls the tracker: the
\* checkpoint of step k * save_interval_steps as decode_pmap_model holds it.
StepOfCall(k) == k * save_interval_steps

StateOfCall(k) ==
  get_model_states(restore_checkpoint(StepOfCall(k), None), cfg.use_ema,
                   cfg.track_metric)

\* A pass ends with a value of the tracked metric: every host is about to call
\* maybe_update_min_tracked_metric with it.
FeedValue ==
  /\ pending = {}
  /\ Len(fed) < MaxFeeds
  /\ \E m_value \in Values \cup {float_info_max} :
       fed' = Append(fed, [value |-> m_value, best_before |-> tracker.metric_value,
                           saves_before |-> tracker_saves])
  /\ pending' = Hosts
  /\ UNCHANGED loopVars
  /\ UNCHANGED trackerVars
  /\ UNCHANGED decodeVars
  /\ UNCHANGED evalVars
  /\ UNCHANGED mergeVars
  /\ UNCHANGED accVars

\* Host h makes the call.
TrackerCall(h) ==
  /\ h \in pending
  /\ maybe_update_min_tracked_metric(h, fed[Len(fed)].value, StepOfCall(Len(fed)),
                                     StateOfCall(Len(fed)))
  /\ pending' = pending \ {h}
  /\ UNCHANGED loopVars
  /\ UNCHANGED fed
  /\ UNCHANGED decodeVars
  /\ UNCHANGED evalVars
  /\ UNCHANGED mergeVars
  /\ UNCHANGED accVars

\* The two writes of maybe_update_min_tracked_metric followed one by one.
\* Host h makes the call up to tracker.update(value=m_value,
\* global_step=step), which rewrites the status file; save_checkpoint is
\* still to come.
TrackerUpdate(h) ==
  /\ h \in pending
  /\ dpc[h] = "idle"
  /\ IF IsTrackerHost(h) /\ IsImprovement(fed[Len(fed)].value, tracker.metric_value)
       THEN /\ tracker' = [metric_value |-> fed[Len(fed)].value,
                           global_step |-> StepOfCall(Len(fed))]
            /\ tracker_writers' = tracker_writers \cup {h}
            /\ dpc' = [dpc EXCEPT ![h] = "save_checkpoint"]
            /\ UNCHANGED pending
       ELSE /\ pending' = pending \ {h}
            /\ UNCHANGED <<tracker, tracker_writers, dpc>>
  /\ UNCHANGED <<tracker_ckpt, tracker_saves>>
  /\ UNCHANGED <<input_p, inputs, input_pos, decoder_out, out_writes, out_writers,
                 step_i, split, step_num, processed_decodes, executor_calls,
                 existed, passes, returned>>
  /\ UNCHANGED loopVars
  /\ UNCHANGED fed
  /\ UNCHANGED evalVars
  /\ UNCHANGED mergeVars
  /\ UNCHANGED accVars

\* checkpoints.save_checkpoint(unreplicated_model_states, tracker_dir_path):
\* the call returns.
TrackerSave(h) ==
  /\ dpc[h] = "save_checkpoint"
  /\ tracker_ckpt' = StateOfCall(Len(fed))
  /\ tracker_saves' = tracker_saves + 1
  /\ dpc' = [dpc EXCEPT ![h] = "idle"]
  /\ pending' = pending \ {h}
  /\ UNCHANGED <<tracker, tracker_writers>>
  /\ UNCHANGED <<input_p, inputs, input_pos, decoder_out, out_writes, out_writers,
                 step_i, split, step_num, processed_decodes, executor_calls,
                 existed, passes, returned>>
  /\ UNCHANGED loopVars
  /\ UNCHANGED fed
  /\ UNCHANGED evalVars
  /\ UNCHANGED mergeVars
  /\ UNCHANGED accVars

\* ------------------------------------------------------------------------
\* The decode pass: decode_once_pmap_model / decode_once_spmd_model.
\* ------------------------------------------------------------------------

Splits == 1..NumSplits

\* Steps of the train states the passes decode.
DecodeSteps == {save_interval_steps, 2 * save_interval_steps}

\* Steps of the train states a loop can hold: 0 of a fresh state, and the
\* steps of the checkpoints.
Steps == {0} \cup {k * save_interval_steps : k \in 1..MaxCheckpoints}

\* num_steps_per_input: -1 if p.reset_for_eval else p.eval_loop_num_batches
Budgets == {-1, MaxBudget}

\* Batches an input yields before it is exhausted: none, as many as the
\* budget, one more (the next pass then meets the end before its budget).
InputLengths == {0, MaxBudget, MaxBudget + 1}

\* No output file for a split and step.
NoFile == <<None>>

\* io_utils.load_outputs raises when there is nothing to load.
load_outputs_raises(file) == file = NoFile

\* _can_load_decode_outs: success[0] = len(outputs), 0 when loading raised;
\* return out[0] > 0
LoadNothing(file) == 0

LoadSuccess(file) == IF load_outputs_raises(file) THEN 0 ELSE Len(file)

can_load_decode_outs(file) == LoadSuccess(file) > 0

LoopConditionInclusive(num_split_steps, n) ==
  num_split_steps < 0 \/ n <= num_split_steps

\* while num_split_steps < 0 or step_num < num_split_steps:
LoopCondition(num_split_steps, n) == num_split_steps < 0 \/ n < num_split_steps

\* The train state decode_pmap_model / decode_spmd_model hands to the pass.
StateOfPass(step) ==
  IF cfg.mode = "decode_pmap"
    THEN get_model_states(restore_checkpoint(step, None), cfg.use_ema,
                          cfg.track_metric)
    ELSE trim_opt_states(get_model_states_and_step_fn(
           restore_checkpoint_spmd(step, None, cfg.use_ema), cfg.use_ema))

\* if jax.process_index() == 0: ... io_utils.write_key_value_pairs(...)
IsOutputWriter(h) == h = 0

\* The entry of a split in the lists the pass returns.
Entry(split_metrics, scalars, processed, steps, calls, was_persisted) ==
  [decode_metrics |-> split_metrics, decode_scalars |-> scalars,
   processed_metrics |-> processed, num_decode_steps |-> steps,
   executor_calls |-> calls, existed |-> was_persisted]

\* decode_once_spmd_model: the decode step is followed by
\* py_utils.sync_global_devices; decode_once_pmap_model has no such call.
IsPartitioned == cfg.mode = "decode_spmd"

\* decode_metrics.store(...): on every host in decode_once_pmap_model, in
\* decode_once_spmd_model after `if jax.process_index() != 0: continue`.
StoresScalars(h) == ~IsPartitioned \/ h = 0

\* process_decode_out and process_decode_metrics.store(...): host 0 only.
ProcessesOutputs(h) == h = 0

\* The batches whose weighted scalars decode_metrics.summarize and
\* process_decode_metrics.summarize report on host h, given the calls of the
\* decode step.
SummarizedScalars(h, calls) == IF StoresScalars(h) THEN calls ELSE 0

SummarizedProcessed(h, calls) == IF ProcessesOutputs(h) THEN calls ELSE 0

\* decode_metrics = instantiate(metrics_p); metrics = {}; processed_metrics =
\* {}; processed_decodes = []: what a split starts with, whatever was there.
KeepAccumulator(previous) == previous

NewAccumulator(previous) == <<>>

\* model.process_decode_out(inputs[split], out): the per-example outputs of
\* batch b, two of them, in the order of the examples.
process_decode_out(b) == <<<<b, "first">>, <<b, "second">>>>

\* processed_decodes.extend(processed_out)
ExtendFront(decodes, processed_out) == processed_out \o decodes

Extend(decodes, processed_out) == decodes \o processed_out

\* No call of maybe_update_min_tracked_metric.
NoCall == [host |-> None, split |-> None, step |-> None, m_value |-> None,
           state |-> NoState]

\* decode_once_pmap_model calls maybe_update_min_tracked_metric;
\* decode_once_spmd_model logs 'Decoder metric tracking is not implemented yet
\* for pjit models. Ignoring metric tracking.'
TracksMetric == cfg.mode = "decode_pmap"

\* decode_metrics_list.append(...), processed_decode_metrics_list.append(...),
\* seqio_metrics_list.append(...), num_decode_steps.append(...): every split
\* adds its entry at the end of the lists, a skipped one too.
AppendUnlessSkipped(list, entry) ==
  IF entry.decode_metrics = "None" THEN list ELSE Append(list, entry)

AppendEntry(list, entry) == Append(list, entry)

\* Every host calls decode_once_fn on the train state of step s.
DecodeOnce ==
  /\ IsDecode
  /\ \A h \in Hosts : dpc[h] = "idle"
  /\ passes < MaxPasses
  /\ passes' = passes + 1
  /\ \E s \in DecodeSteps : step_i' = s
  /\ dpc' = [h \in Hosts |-> "probe"]
  /\ split' = [h \in Hosts |-> 1]
  /\ returned' = [h \in Hosts |-> <<>>]
  /\ UNCHANGED <<input_p, inputs, input_pos, decoder_out, out_writes, out_writers,
                 step_num, processed_decodes, executor_calls, existed>>
  /\ UNCHANGED evalVars
  /\ UNCHANGED loopVars
  /\ UNCHANGED trackerVars
  /\ UNCHANGED callVars
  /\ UNCHANGED mergeVars
  /\ tracker_call' = NoCall
  /\ UNCHANGED <<synced, stored, track_seen>>

\* _can_load_decode_outs on host h: success = np.array([0]); only host 0 loads
\* the outputs and sets success[0] = len(outputs).
LocalSuccess(h, file) == IF h = 0 THEN LoadSuccess(file) ELSE 0

\* out = multihost_utils.broadcast_one_to_all(success): every host gets the
\* array of host 0.
keep_own_success(success, h) == success[h]

broadcast_one_to_all(success, h) == success[0]

\* return out[0] > 0, on host h
CanLoadOnHost(h, file) ==
  broadcast_one_to_all([g \in Hosts |-> LocalSuccess(g, file)], h) > 0

\* for split ...: if _can_load_decode_outs(...): host 0 loads the outputs and
\* broadcasts the result; the broadcast is collective.  A host that skips
\* appends None, None, None and 0 and goes on to the next split; a host that
\* runs creates the accumulators of the split.
SkipCheck ==
  /\ \A h \in Hosts : dpc[h] = "probe"
  /\ LET file == decoder_out[<<split[0], step_i>>]
         skips == [h \in Hosts |-> CanLoadOnHost(h, file)]
     IN  /\ existed' = (file # NoFile)
         /\ returned' = [h \in Hosts |->
              IF skips[h]
                THEN AppendEntry(returned[h], Entry("None", 0, 0, 0, 0, file # NoFile))
                ELSE returned[h]]
         /\ split' = [h \in Hosts |-> IF skips[h] THEN split[h] + 1 ELSE split[h]]
         /\ dpc' = [h \in Hosts |->
              IF skips[h] THEN IF split[h] < NumSplits THEN "probe" ELSE "idle"
                          ELSE "loop"]
         /\ step_num' = [h \in Hosts |-> IF skips[h] THEN step_num[h] ELSE 0]
         /\ processed_decodes' = [h \in Hosts |->
              IF skips[h] THEN processed_decodes[h]
                          ELSE NewAccumulator(processed_decodes[h])]
         /\ stored' = [h \in Hosts |->
              IF skips[h] THEN stored[h] ELSE NewAccumulator(stored[h])]
         /\ track_seen' = [h \in Hosts |-> IF skips[h] THEN track_seen[h] ELSE FALSE]
         /\ synced' = [h \in Hosts |-> IF skips[h] THEN synced[h] ELSE 0]
         /\ executor_calls' = [h \in Hosts |->
              IF skips[h] THEN executor_calls[h] ELSE 0]
         /\ resets' = [h \in Hosts |-> IF skips[h] THEN resets[h] ELSE 0]
  /\ UNCHANGED <<input_p, inputs, input_pos, decoder_out, out_writes, out_writers, step_i,
                 passes>>
  /\ UNCHANGED loopVars
  /\ UNCHANGED trackerVars
  /\ UNCHANGED callVars
  /\ UNCHANGED mergeVars
  /\ UNCHANGED tracker_call

\* inputs[split].get_next() / get_next_padded() returns a batch: the input of
\* the host (decode() gives every host its infeed_host_index) has one left.
HasNext(h) == input_pos[h][split[h]] < inputs[h][split[h]]

\* One turn of the step loop on every host: the batch is drawn and the decode
\* step, which is collective, is run (in decode_once_spmd_model followed by
\* the barrier sync_global_devices); the metrics of the batch are stored;
\* host 0 post-processes the output, whose processed metrics may hold the
\* tracked metric.
DecodeStep ==
  /\ \A h \in Hosts :
       /\ dpc[h] = "loop"
       /\ LoopCondition(input_p[split[h]].num_split_steps, step_num[h])
       /\ HasNext(h)
  /\ step_num' = [h \in Hosts |-> step_num[h] + 1]
  /\ input_pos' = [h \in Hosts |->
                     [input_pos[h] EXCEPT ![split[h]] = @ + 1]]
  /\ executor_calls' = [h \in Hosts |-> executor_calls[h] + 1]
  /\ synced' = [h \in Hosts |-> IF IsPartitioned THEN synced[h] + 1 ELSE synced[h]]
  /\ stored' = [h \in Hosts |-> Append(stored[h], input_pos[h][split[h]] + 1)]
  /\ processed_decodes' = [h \in Hosts |->
       IF h = 0 THEN Extend(processed_decodes[h],
                            process_decode_out(input_pos[h][split[h]] + 1))
                ELSE processed_decodes[h]]
  /\ \E present \in (IF cfg.track_metric THEN BOOLEAN ELSE {FALSE}) :
       track_seen' = [track_seen EXCEPT ![0] = @ \/ present]
  /\ UNCHANGED <<input_p, inputs, decoder_out, out_writes, out_writers, dpc, step_i,
                 split, existed, passes, returned>>
  /\ UNCHANGED evalVars
  /\ UNCHANGED loopVars
  /\ UNCHANGED trackerVars
  /\ UNCHANGED callVars
  /\ UNCHANGED mergeVars
  /\ UNCHANGED tracker_call

\* The budget of the split is used up: the while condition is false.
BudgetReached(h) ==
  /\ dpc[h] = "loop"
  /\ ~LoopCondition(input_p[split[h]].num_split_steps, step_num[h])
  /\ dpc' = [dpc EXCEPT ![h] = "finish"]
  /\ UNCHANGED <<input_p, inputs, input_pos, decoder_out, out_writes, out_writers,
                 step_i, split, step_num, processed_decodes, executor_calls,
                 existed, passes, returned>>
  /\ UNCHANGED evalVars
  /\ UNCHANGED loopVars
  /\ UNCHANGED trackerVars
  /\ UNCHANGED callVars
  /\ UNCHANGED mergeVars
  /\ UNCHANGED accVars

\* step_num += 1; get_next raises: inputs[split].reset(); break
InputExhausted(h) ==
  /\ dpc[h] = "loop"
  /\ LoopCondition(input_p[split[h]].num_split_steps, step_num[h])
  /\ ~HasNext(h)
  /\ step_num' = [step_num EXCEPT ![h] = @ + 1]
  /\ input_pos' = [input_pos EXCEPT ![h][split[h]] = 0]
  /\ resets' = [resets EXCEPT ![h] = @ + 1]
  /\ dpc' = [dpc EXCEPT ![h] = "finish"]
  /\ UNCHANGED <<input_p, inputs, decoder_out, out_writes, out_writers, step_i, split,
                 processed_decodes, executor_calls, existed, passes, returned>>
  /\ UNCHANGED loopVars
  /\ UNCHANGED trackerVars
  /\ UNCHANGED callVars
  /\ UNCHANGED mergeVars
  /\ UNCHANGED accVars

\* After the step loop: the tracked metric, when the processed metrics hold
\* it (which needs a batch processed on this host), the write of the outputs,
\* and the entries of the returned lists.
FinishSplit(h) ==
  /\ dpc[h] = "finish"
  /\ IF cfg.track_metric /\ track_seen[h] /\ TracksMetric
       THEN \E m_value \in Values :
              /\ maybe_update_min_tracked_metric(h, m_value, step_i,
                                                 StateOfPass(step_i))
              /\ tracker_call' = [host |-> h, split |-> split[h], step |-> step_i,
                                  m_value |-> m_value, state |-> StateOfPass(step_i)]
       ELSE /\ UNCHANGED trackerVars
            /\ UNCHANGED tracker_call
  /\ IF IsOutputWriter(h)
       THEN /\ decoder_out' = [decoder_out EXCEPT ![<<split[h], step_i>>] =
                                 processed_decodes[h]]
            /\ out_writes' = [out_writes EXCEPT ![<<split[h], step_i>>] =
                                IF @ < MaxWrites THEN @ + 1 ELSE @]
            /\ out_writers' = out_writers \cup {h}
       ELSE UNCHANGED <<decoder_out, out_writes, out_writers>>
  /\ returned' = [returned EXCEPT ![h] =
       AppendEntry(@, Entry("metrics", SummarizedScalars(h, executor_calls[h]),
                            SummarizedProcessed(h, executor_calls[h]),
                            step_num[h], executor_calls[h], existed))]
  /\ split' = [split EXCEPT ![h] = @ + 1]
  /\ dpc' = [dpc EXCEPT ![h] = IF split[h] < NumSplits THEN "probe" ELSE "idle"]
  /\ UNCHANGED <<input_p, inputs, input_pos, step_i, step_num, processed_decodes,
                 executor_calls, existed, passes>>
  /\ UNCHANGED evalVars
  /\ UNCHANGED callVars
  /\ UNCHANGED loopVars
  /\ UNCHANGED mergeVars
  /\ UNCHANGED <<synced, stored, track_seen>>

\* ------------------------------------------------------------------------
\* The evaluation pass: run_eval_loop_over_test_splits, on one host (the
\* hosts do not interact in it).
\* ------------------------------------------------------------------------

\* except (tf.errors.OutOfRangeError, StopIteration): if num_split_steps > 0: raise
RaisesOnExhaustionAlways(num_split_steps) == TRUE

RaisesOnExhaustionNever(num_split_steps) == FALSE

RaisesOnExhaustion(num_split_steps) == num_split_steps > 0

\* runner.run_one_step(replicated_model_states, eval_summary_writers): the
\* first split starts with step_num = 0.
EvalOnce(h) ==
  /\ ~IsDecode
  /\ \A g \in Hosts : dpc[g] = "idle"
  /\ passes < MaxPasses
  /\ passes' = passes + 1
  /\ \E s \in DecodeSteps : step_i' = s
  /\ dpc' = [dpc EXCEPT ![h] = "eval_loop"]
  /\ split' = [split EXCEPT ![h] = 1]
  /\ returned' = [returned EXCEPT ![h] = <<>>]
  /\ step_num' = [step_num EXCEPT ![h] = 0]
  /\ executor_calls' = [executor_calls EXCEPT ![h] = 0]
  /\ resets' = [resets EXCEPT ![h] = 0]
  /\ UNCHANGED <<input_p, inputs, input_pos, decoder_out, out_writes, out_writers,
                 processed_decodes, existed>>
  /\ UNCHANGED loopVars
  /\ UNCHANGED trackerVars
  /\ UNCHANGED callVars
  /\ UNCHANGED mergeVars
  /\ stored' = [stored EXCEPT ![h] = NewAccumulator(@)]
  /\ UNCHANGED <<synced, track_seen, tracker_call>>

\* One turn of the while loop: step_num += 1, the batch is drawn and
\* run_eval_one_step is called.
EvalStep(h) ==
  /\ dpc[h] = "eval_loop"
  /\ LoopCondition(input_p[split[h]].num_split_steps, step_num[h])
  /\ HasNext(h)
  /\ step_num' = [step_num EXCEPT ![h] = @ + 1]
  /\ input_pos' = [input_pos EXCEPT ![h][split[h]] = @ + 1]
  /\ executor_calls' = [executor_calls EXCEPT ![h] = @ + 1]
  /\ UNCHANGED <<input_p, inputs, decoder_out, out_writes, out_writers, dpc, step_i,
                 split, processed_decodes, existed, passes, returned>>
  /\ UNCHANGED evalVars
  /\ UNCHANGED loopVars
  /\ UNCHANGED trackerVars
  /\ UNCHANGED callVars
  /\ UNCHANGED mergeVars
  /\ stored' = [stored EXCEPT ![h] = Append(@, input_pos[h][split[h]] + 1)]
  /\ UNCHANGED <<synced, track_seen, tracker_call>>

\* The while condition is false: the budget of the split is used up.
EvalBudgetReached(h) ==
  /\ dpc[h] = "eval_loop"
  /\ ~LoopCondition(input_p[split[h]].num_split_steps, step_num[h])
  /\ dpc' = [dpc EXCEPT ![h] = "eval_finish"]
  /\ UNCHANGED <<input_p, inputs, input_pos, decoder_out, out_writes, out_writers,
                 step_i, split, step_num, processed_decodes, executor_calls,
                 existed, passes, returned>>
  /\ UNCHANGED evalVars
  /\ UNCHANGED loopVars
  /\ UNCHANGED trackerVars
  /\ UNCHANGED callVars
  /\ UNCHANGED mergeVars
  /\ UNCHANGED accVars

\* step_num += 1; get_next_padded raises: with a fixed budget the error is
\* raised again and leaves the pass and its caller; else reset() and break.
EvalInputExhausted(h) ==
  /\ dpc[h] = "eval_loop"
  /\ LoopCondition(input_p[split[h]].num_split_steps, step_num[h])
  /\ ~HasNext(h)
  /\ step_num' = [step_num EXCEPT ![h] = @ + 1]
  /\ IF RaisesOnExhaustion(input_p[split[h]].num_split_steps)
       THEN /\ dpc' = [dpc EXCEPT ![h] = "raised"]
            /\ UNCHANGED <<input_pos, resets>>
       ELSE /\ dpc' = [dpc EXCEPT ![h] = "eval_finish"]
            /\ input_pos' = [input_pos EXCEPT ![h][split[h]] = 0]
            /\ resets' = [resets EXCEPT ![h] = @ + 1]
  /\ UNCHANGED <<input_p, inputs, decoder_out, out_writes, out_writers, step_i, split,
                 processed_decodes, executor_calls, existed, passes, returned>>
  /\ UNCHANGED loopVars
  /\ UNCHANGED trackerVars
  /\ UNCHANGED callVars
  /\ UNCHANGED mergeVars
  /\ UNCHANGED accVars

\* After the while loop: eval_metrics_list.append(...),
\* num_eval_steps.append(step_num); then the next split, or the return.
EvalFinishSplit(h) ==
  /\ dpc[h] = "eval_finish"
  /\ returned' = [returned EXCEPT ![h] =
       AppendEntry(@, Entry("metrics", executor_calls[h], 0, step_num[h],
                            executor_calls[h], FALSE))]
  /\ split' = [split EXCEPT ![h] = @ + 1]
  /\ IF split[h] < NumSplits
       THEN /\ dpc' = [dpc EXCEPT ![h] = "eval_loop"]
            /\ step_num' = [step_num EXCEPT ![h] = 0]
            /\ executor_calls' = [executor_calls EXCEPT ![h] = 0]
            /\ resets' = [resets EXCEPT ![h] = 0]
            /\ stored' = [stored EXCEPT ![h] = NewAccumulator(@)]
       ELSE /\ dpc' = [dpc EXCEPT ![h] = "idle"]
            /\ UNCHANGED <<step_num, executor_calls, resets, stored>>
  /\ UNCHANGED <<input_p, inputs, input_pos, decoder_out, out_writes, out_writers,
                 step_i, processed_decodes, existed, passes>>
  /\ UNCHANGED loopVars
  /\ UNCHANGED trackerVars
  /\ UNCHANGED callVars
  /\ UNCHANGED mergeVars
  /\ UNCHANGED <<synced, track_seen, tracker_call>>

\* ------------------------------------------------------------------------
\* The clu metrics of a split: _merge_clu_metrics.
\* ------------------------------------------------------------------------

\* The batches of a split whose metric updates are merged: three, A, B and C.
BatchIds == {1, 2, 3}

\* The names of the metrics a decode step can return.
Names == {"bleu", "wer"}

\* A clu metric: the weighted sum of its values and the sum of the weights.
Metric == [total : {0, MaxTotal}, weight : {1, MaxWeight}]

\* metrics = {}
EmptyMetrics == [k \in {} |-> 0]

\* The dictionaries of metrics a decode step can return.
MetricDicts == UNION {[K -> Metric] : K \in SUBSET Names}

\* clu_metrics.Metric.merge: the sums of both.
MetricMergeLast(x, y) == y

MetricMerge(x, y) == [total |-> x.total + y.total, weight |-> x.weight + y.weight]

\* if metrics:
IsPopulated(m) == m # EmptyMetrics

\* set(metrics.keys()) != set(updated_metrics.keys())
KeysMatchSubset(m, updated_metrics) == DOMAIN m \subseteq DOMAIN updated_metrics

KeysMatch(m, updated_metrics) == DOMAIN m = DOMAIN updated_metrics

merge_clu_metrics_raises(m, updated_metrics) ==
  IsPopulated(m) /\ ~KeysMatch(m, updated_metrics)

merge_clu_metrics(m, updated_metrics) ==
  IF IsPopulated(m)
    THEN [key \in DOMAIN m |-> MetricMerge(m[key], updated_metrics[key])]
    ELSE updated_metrics

\* metrics = _merge_clu_metrics(metrics, updated_metrics) for the update of a
\* batch; the ValueError leaves the pass.
MergeBatch(i) ==
  /\ failed = 0
  /\ \A j \in 1..Len(merged) : merged[j] # i
  /\ IF merge_clu_metrics_raises(metrics, batches[i])
       THEN /\ failed' = i
            /\ UNCHANGED <<metrics, merged>>
       ELSE /\ metrics' = merge_clu_metrics(metrics, batches[i])
            /\ merged' = Append(merged, i)
            /\ UNCHANGED failed
  /\ UNCHANGED batches
  /\ UNCHANGED loopVars
  /\ UNCHANGED trackerVars
  /\ UNCHANGED callVars
  /\ UNCHANGED decodeVars
  /\ UNCHANGED evalVars
  /\ UNCHANGED accVars

\* ------------------------------------------------------------------------
\* The weighted scalars of an evaluation split: the lists of
\* run_eval_loop_over_test_splits and metric_utils.as_float_dict.
\* ------------------------------------------------------------------------

\* eval_metrics[k] of a batch: a (value, weight) pair.
WeightedScalar == [value : {0, MaxTotal}, weight : {0, 1, MaxWeight}]

\* The eval_metrics a step can return.
WeightedScalarDicts == UNION {[K -> WeightedScalar] : K \in SUBSET Names}

\* metrics = collections.defaultdict(list): no key has a list yet.
NoLists == [k \in {} |-> <<>>]

\* for k in eval_metrics: metrics[k].append(eval_metrics[k])
AppendAll(lists, eval_metrics) ==
  [k \in DOMAIN lists \cup DOMAIN eval_metrics |->
     IF k \in DOMAIN eval_metrics
       THEN Append(IF k \in DOMAIN lists THEN lists[k] ELSE <<>>, eval_metrics[k])
       ELSE lists[k]]

RECURSIVE SumValueWeight(_)
SumValueWeight(values) ==
  IF values = <<>> THEN 0
  ELSE values[1].value * values[1].weight + SumValueWeight(Tail(values))

RECURSIVE SumValue(_)
SumValue(values) ==
  IF values = <<>> THEN 0 ELSE values[1].value + SumValue(Tail(values))

RECURSIVE SumWeight(_)
SumWeight(values) ==
  IF values = <<>> THEN 0 ELSE values[1].weight + SumWeight(Tail(values))

\* metric_utils.as_float(values): the average of a list of weighted scalars,
\* as the fraction num / den (not a number when den is 0).
as_float_unweighted(values) == [num |-> SumValue(values), den |-> Len(values)]

as_float(values) == [num |-> SumValueWeight(values), den |-> SumWeight(values)]

\* metric_utils.as_float_dict(metrics)
as_float_dict(lists) == [k \in DOMAIN lists |-> as_float(lists[k])]

\* One turn of the while loop of a split: the eval_metrics of the next batch
\* are appended to the lists.
StoreBatch(i) ==
  /\ i = Len(merged) + 1
  /\ metrics' = AppendAll(metrics, batches[i])
  /\ merged' = Append(merged, i)
  /\ UNCHANGED <<batches, failed>>
  /\ UNCHANGED loopVars
  /\ UNCHANGED trackerVars
  /\ UNCHANGED callVars
  /\ UNCHANGED decodeVars
  /\ UNCHANGED evalVars
  /\ UNCHANGED accVars

\* ------------------------------------------------------------------------
\* The continuous loop of one host.
\* ------------------------------------------------------------------------

\* The hosts that run the loop.
Participants == {h \in Hosts : pc[h] # "off"}

\* checkpoint_step = retrieve_latest_checkpoint_step(checkpoint_dir), in
\* decode() restore_checkpoint_step.
RetrieveCheckpointStep(h) ==
  /\ pc[h] = "start"
  /\ \E listed \in retrieve_latest_checkpoint_step :
       checkpoint_step' = [checkpoint_step EXCEPT ![h] = listed]
  /\ pc' = [pc EXCEPT ![h] = "get_model_states"]
  /\ UNCHANGED <<cfg, checkpoints, last_checkpoint_step, new_checkpoint_step,
                 model_states, iteration, decision>>
  /\ UNCHANGED trackerVars
  /\ UNCHANGED callVars
  /\ UNCHANGED mergeVars
  /\ UNCHANGED accVars
  /\ UNCHANGED decodeVars
  /\ UNCHANGED evalVars

\* The first restore: get_model_states / get_model_states_and_step_fn, and
\* the trim_opt_states of decode_spmd_model.
InitialRestore(h) ==
  /\ pc[h] = "get_model_states"
  /\ \E latest \in retrieve_latest_checkpoint_step :
       LET restored == IF IsPmap
                         THEN restore_checkpoint(checkpoint_step[h], latest)
                         ELSE restore_checkpoint_spmd(checkpoint_step[h], latest,
                                                      cfg.use_ema)
           raises == IF IsPmap
                       THEN get_model_states_raises(restored, cfg.use_ema,
                                                    TrackMetricArg)
                       ELSE get_model_states_and_step_fn_raises(restored,
                                                                cfg.use_ema)
           ms == IF IsPmap
                   THEN get_model_states(restored, cfg.use_ema, TrackMetricArg)
                   ELSE get_model_states_and_step_fn(restored, cfg.use_ema)
       IN  IF raises
             THEN /\ pc' = [pc EXCEPT ![h] = "raised"]
                  /\ UNCHANGED model_states
             ELSE /\ pc' = [pc EXCEPT ![h] = "list_last"]
                  /\ model_states' = [model_states EXCEPT ![h] =
                       IF cfg.mode = "decode_spmd" THEN trim_opt_states(ms) ELSE ms]
  /\ UNCHANGED <<cfg, checkpoints, checkpoint_step, last_checkpoint_step,
                 new_checkpoint_step, iteration, decision>>
  /\ UNCHANGED trackerVars
  /\ UNCHANGED callVars
  /\ UNCHANGED mergeVars
  /\ UNCHANGED accVars
  /\ UNCHANGED decodeVars
  /\ UNCHANGED evalVars

\* last_checkpoint_step = retrieve_latest_checkpoint_step(checkpoint_dir).
\* In the SPMD loops every host has passed the barrier
\* 'checkpointer:restored' of the first restore.
ListLastCheckpointStep(h) ==
  /\ pc[h] = "list_last"
  /\ IsPmap \/ \A g \in Participants : pc[g] \notin {"start", "get_model_states"}
  /\ \E listed \in retrieve_latest_checkpoint_step :
       last_checkpoint_step' = [last_checkpoint_step EXCEPT ![h] = listed]
  /\ pc' = [pc EXCEPT ![h] = "run"]
  /\ iteration' = [iteration EXCEPT ![h] = 1]
  /\ UNCHANGED <<cfg, checkpoints, checkpoint_step, new_checkpoint_step,
                 model_states, decision>>
  /\ UNCHANGED trackerVars
  /\ UNCHANGED callVars
  /\ UNCHANGED mergeVars
  /\ UNCHANGED accVars
  /\ UNCHANGED decodeVars
  /\ UNCHANGED evalVars

\* One pass on the current state: decode_once_fn and runner.run_one_step.
\* Its steps are collective, so every host has to have started the pass.  In
\* decode_pmap_model the pass hands the tracked metric of a split, when the
\* processed metrics hold it, to maybe_update_min_tracked_metric.
RunPass(h) ==
  /\ pc[h] = "run"
  /\ \A g \in Participants : iteration[g] >= iteration[h]
  /\ IF cfg.mode = "decode_pmap" /\ cfg.track_metric
       THEN \/ UNCHANGED trackerVars
            \/ \E m_value \in Values :
                 maybe_update_min_tracked_metric(h, m_value, model_states[h].step,
                                                 model_states[h])
       ELSE UNCHANGED trackerVars
  /\ pc' = [pc EXCEPT ![h] = "decide"]
  /\ UNCHANGED <<cfg, checkpoints, checkpoint_step, last_checkpoint_step,
                 new_checkpoint_step, model_states, iteration, decision>>
  /\ UNCHANGED callVars
  /\ UNCHANGED mergeVars
  /\ UNCHANGED accVars
  /\ UNCHANGED decodeVars
  /\ UNCHANGED evalVars

\* is_last_ckpt = last_checkpoint_step + save_interval_steps > num_train_steps
is_last_ckpt_at_limit(step) == step + save_interval_steps >= num_train_steps

is_last_ckpt(step) == step + save_interval_steps > num_train_steps

\* if last_checkpoint_step is not None:
KnowsCheckpointStepAlways(step) == TRUE

KnowsCheckpointStep(step) == step # None

\* tuning_lib.should_early_stop: the answers of the early stopping function.
should_early_stop == BOOLEAN

NoDecision == [calls |-> 0, ckpt_step |-> None, is_final |-> FALSE,
               should_stop |-> FALSE]

\* if not continuous_decode: break
BreaksNever(c) == FALSE

BreaksAfterPass(c) == ~c.continuous_decode

\* The stop decision after the pass.
Decide(h) ==
  /\ pc[h] = "decide"
  /\ IF BreaksAfterPass(cfg)
       THEN /\ pc' = [pc EXCEPT ![h] = "done"]
            /\ decision' = [decision EXCEPT ![h] = NoDecision]
       ELSE IF KnowsCheckpointStep(last_checkpoint_step[h])
         THEN \E stop \in should_early_stop :
                /\ decision' = [decision EXCEPT ![h] =
                     [calls |-> 1, ckpt_step |-> last_checkpoint_step[h],
                      is_final |-> is_last_ckpt(last_checkpoint_step[h]),
                      should_stop |-> stop]]
                /\ pc' = [pc EXCEPT ![h] =
                     IF stop \/ is_last_ckpt(last_checkpoint_step[h])
                       THEN "done" ELSE "wait"]
         ELSE /\ decision' = [decision EXCEPT ![h] = NoDecision]
              /\ pc' = [pc EXCEPT ![h] = "wait"]
  /\ UNCHANGED <<cfg, checkpoints, checkpoint_step, last_checkpoint_step,
                 new_checkpoint_step, model_states, iteration>>
  /\ UNCHANGED trackerVars
  /\ UNCHANGED callVars
  /\ UNCHANGED mergeVars
  /\ UNCHANGED accVars
  /\ UNCHANGED decodeVars
  /\ UNCHANGED evalVars

\* while new_checkpoint_step == last_checkpoint_step: sleep and list again.
LeavesWait(new_step, last_step) == new_step # last_step

\* One listing of the wait: the loop leaves the wait or sleeps.  The state of
\* the pass has been released.
WaitForCheckpoint(h) ==
  /\ pc[h] = "wait"
  /\ \E listed \in retrieve_latest_checkpoint_step :
       /\ new_checkpoint_step' = [new_checkpoint_step EXCEPT ![h] = listed]
       /\ pc' = [pc EXCEPT ![h] =
            IF LeavesWait(listed, last_checkpoint_step[h]) THEN "restore" ELSE "wait"]
  /\ model_states' = [model_states EXCEPT ![h] = NoState]
  /\ UNCHANGED <<cfg, checkpoints, checkpoint_step, last_checkpoint_step,
                 iteration, decision>>
  /\ UNCHANGED trackerVars
  /\ UNCHANGED callVars
  /\ UNCHANGED mergeVars
  /\ UNCHANGED accVars
  /\ UNCHANGED decodeVars
  /\ UNCHANGED evalVars

\* The restore after the wait, and last_checkpoint_step = new_checkpoint_step.
Restore(h) ==
  /\ pc[h] = "restore"
  /\ iteration[h] < MaxIterations
  /\ \E latest \in retrieve_latest_checkpoint_step :
       LET restored == RestoredAfterWait(new_checkpoint_step[h], latest)
       IN  IF RestoreAfterWaitRaises(restored)
             THEN /\ pc' = [pc EXCEPT ![h] = "raised"]
                  /\ UNCHANGED <<model_states, last_checkpoint_step, iteration>>
             ELSE /\ pc' = [pc EXCEPT ![h] = "run"]
                  /\ model_states' = [model_states EXCEPT ![h] =
                       RestoreAfterWait(restored)]
                  /\ last_checkpoint_step' = [last_checkpoint_step EXCEPT ![h] =
                       new_checkpoint_step[h]]
                  /\ iteration' = [iteration EXCEPT ![h] = @ + 1]
  /\ UNCHANGED <<cfg, checkpoints, checkpoint_step, new_checkpoint_step, decision>>
  /\ UNCHANGED trackerVars
  /\ UNCHANGED callVars
  /\ UNCHANGED mergeVars
  /\ UNCHANGED accVars
  /\ UNCHANGED decodeVars
  /\ UNCHANGED evalVars

\* The pass of a loop followed step by step: decode_once_fn(...) or
\* runner.run_one_step(...) is called on the current state.  The decode pass
\* is collective: the other hosts are taken to start it along with host h.
StartPass(h) ==
  /\ pc[h] = "run"
  /\ \A g \in Hosts : dpc[g] = "idle"
  /\ pc' = [pc EXCEPT ![h] = "in_pass"]
  /\ passes' = passes + 1
  /\ step_i' = model_states[h].step
  /\ IF IsDecode
       THEN /\ dpc' = [g \in Hosts |-> "probe"]
            /\ split' = [g \in Hosts |-> 1]
            /\ returned' = [g \in Hosts |-> <<>>]
            /\ tracker_call' = NoCall
            /\ UNCHANGED <<step_num, executor_calls, resets, stored>>
       ELSE /\ dpc' = [dpc EXCEPT ![h] = "eval_loop"]
            /\ split' = [split EXCEPT ![h] = 1]
            /\ returned' = [returned EXCEPT ![h] = <<>>]
            /\ step_num' = [step_num EXCEPT ![h] = 0]
            /\ executor_calls' = [executor_calls EXCEPT ![h] = 0]
            /\ resets' = [resets EXCEPT ![h] = 0]
            /\ stored' = [stored EXCEPT ![h] = NewAccumulator(@)]
            /\ UNCHANGED tracker_call
  /\ UNCHANGED <<cfg, checkpoints, checkpoint_step, last_checkpoint_step,
                 new_checkpoint_step, model_states, iteration, decision>>
  /\ UNCHANGED <<input_p, inputs, input_pos, decoder_out, out_writes, out_writers,
                 processed_decodes, existed>>
  /\ UNCHANGED <<synced, track_seen>>
  /\ UNCHANGED trackerVars
  /\ UNCHANGED callVars
  /\ UNCHANGED mergeVars

\* The call of the pass has returned its lists.
PassReturnedAny(h) == TRUE

PassReturned(h) == dpc[h] = "idle"

\* The state the decode loops hand to eval_runner.run_one_step after the
\* decode pass: replicated_model_states / partitioned_train_state, the
\* variable decode_once_fn was called with.
LatestCheckpointState(h) == restore_checkpoint(None, Latest(checkpoints))

EvalPassState(h) == model_states[h]

\* decode_pmap_model / decode_spmd_model: decode_once_fn has returned and
\* eval_runner.run_one_step(...) is called.
StartEval(h) ==
  /\ IsDecode
  /\ pc[h] = "in_pass"
  /\ PassReturned(h)
  /\ pc' = [pc EXCEPT ![h] = "in_eval"]
  /\ step_i' = EvalPassState(h).step
  /\ UNCHANGED <<cfg, checkpoints, checkpoint_step, last_checkpoint_step,
                 new_checkpoint_step, model_states, iteration, decision>>
  /\ UNCHANGED <<input_p, inputs, input_pos, decoder_out, out_writes, out_writers,
                 dpc, split, step_num, processed_decodes, executor_calls,
                 existed, passes, returned>>
  /\ UNCHANGED trackerVars
  /\ UNCHANGED callVars
  /\ UNCHANGED mergeVars
  /\ UNCHANGED accVars
  /\ UNCHANGED evalVars

\* The evaluation pass of a decode loop, over the eval inputs (none unless
\* run_eval), returns its lists, or raises on an input shorter than its
\* budget; the error leaves the loop.
EndEval(h) ==
  /\ pc[h] = "in_eval"
  /\ \E raises \in BOOLEAN :
       pc' = [pc EXCEPT ![h] = IF raises THEN "raised" ELSE "decide"]
  /\ UNCHANGED <<cfg, checkpoints, checkpoint_step, last_checkpoint_step,
                 new_checkpoint_step, model_states, iteration, decision>>
  /\ UNCHANGED trackerVars
  /\ UNCHANGED callVars
  /\ UNCHANGED mergeVars
  /\ UNCHANGED accVars
  /\ UNCHANGED decodeVars
  /\ UNCHANGED evalVars

\* The pass of an evaluation loop returns to the loop, which goes on to the
\* stop decision.
EndPass(h) ==
  /\ ~IsDecode
  /\ pc[h] = "in_pass"
  /\ PassReturned(h)
  /\ pc' = [pc EXCEPT ![h] = "decide"]
  /\ UNCHANGED <<cfg, checkpoints, checkpoint_step, last_checkpoint_step,
                 new_checkpoint_step, model_states, iteration, decision>>
  /\ UNCHANGED trackerVars
  /\ UNCHANGED callVars
  /\ UNCHANGED mergeVars
  /\ UNCHANGED accVars
  /\ UNCHANGED decodeVars
  /\ UNCHANGED evalVars

\* The error raised in the pass leaves the loop: nothing catches it.
PassRaised(h) ==
  /\ pc[h] = "in_pass"
  /\ dpc[h] = "raised"
  /\ pc' = [pc EXCEPT ![h] = "raised"]
  /\ UNCHANGED <<cfg, checkpoints, checkpoint_step, last_checkpoint_step,
                 new_checkpoint_step, model_states, iteration, decision>>
  /\ UNCHANGED trackerVars
  /\ UNCHANGED callVars
  /\ UNCHANGED mergeVars
  /\ UNCHANGED accVars
  /\ UNCHANGED decodeVars
  /\ UNCHANGED evalVars

\* decode(): if continuous_decode and restore_checkpoint_dir: raise ValueError
RejectsNothing(c) == FALSE

RejectsRestoreDir(c) == c.continuous_decode /\ c.restore_checkpoint_dir

\* The entry of decode(), before restore_checkpoint_step is listed and
\* decode_pmap_model / decode_spmd_model is called.
decode(h) ==
  /\ pc[h] = "decode"
  /\ pc' = [pc EXCEPT ![h] = IF RejectsRestoreDir(cfg) THEN "raised" ELSE "start"]
  /\ UNCHANGED <<cfg, checkpoints, checkpoint_step, last_checkpoint_step,
                 new_checkpoint_step, model_states, iteration, decision>>
  /\ UNCHANGED trackerVars
  /\ UNCHANGED callVars
  /\ UNCHANGED mergeVars
  /\ UNCHANGED accVars
  /\ UNCHANGED decodeVars
  /\ UNCHANGED evalVars

Loop(h) ==
  \/ RetrieveCheckpointStep(h)
  \/ InitialRestore(h)
  \/ ListLastCheckpointStep(h)
  \/ RunPass(h)
  \/ Decide(h)
  \/ WaitForCheckpoint(h)
  \/ Restore(h)

\* ------------------------------------------------------------------------
\* Specifications.
\* ------------------------------------------------------------------------

vars == <<cfg, checkpoints, pc, checkpoint_step, last_checkpoint_step,
          new_checkpoint_step, model_states, iteration, decision,
          tracker, tracker_ckpt, tracker_saves, tracker_writers, fed, pending,
          input_p, inputs, input_pos, decoder_out, out_writes, out_writers, dpc,
          step_i, split, step_num, processed_decodes, executor_calls, existed, passes,
          returned, resets, batches, metrics, merged, failed, synced, stored,
          track_seen, tracker_call>>

Modes == {"evaluate_pmap", "evaluate_spmd", "decode_pmap", "decode_spmd"}

Configs ==
  {c \in [mode : Modes, use_ema : BOOLEAN, track_metric : BOOLEAN,
          continuous_decode : BOOLEAN, consistent : BOOLEAN] :
     /\ c.mode \in {"evaluate_pmap", "evaluate_spmd"} => c.continuous_decode
     /\ c.track_metric => c.mode \in {"decode_pmap", "decode_spmd"}}

InitLoopAt(running, position) ==
  /\ checkpoints = {}
  /\ pc = [h \in Hosts |-> IF h \in running THEN position ELSE "off"]
  /\ checkpoint_step = [h \in Hosts |-> None]
  /\ last_checkpoint_step = [h \in Hosts |-> None]
  /\ new_checkpoint_step = [h \in Hosts |-> None]
  /\ model_states = [h \in Hosts |-> NoState]
  /\ iteration = [h \in Hosts |-> 0]
  /\ decision = [h \in Hosts |-> NoDecision]
  /\ tracker = InitialTracker
  /\ tracker_ckpt = NoState
  /\ tracker_saves = 0
  /\ tracker_writers = {}
  /\ fed = <<>>
  /\ pending = {}
  /\ input_pos = [h \in Hosts |-> [sp \in Splits |-> 0]]
  /\ decoder_out = [f \in Splits \X Steps |-> NoFile]
  /\ out_writes = [f \in Splits \X Steps |-> 0]
  /\ out_writers = {}
  /\ dpc = [h \in Hosts |-> "idle"]
  /\ step_i = None
  /\ split = [h \in Hosts |-> 1]
  /\ step_num = [h \in Hosts |-> 0]
  /\ processed_decodes = [h \in Hosts |-> <<>>]
  /\ executor_calls = [h \in Hosts |-> 0]
  /\ existed = FALSE
  /\ passes = 0
  /\ resets = [h \in Hosts |-> 0]
  /\ metrics = EmptyMetrics
  /\ merged = <<>>
  /\ failed = 0
  /\ returned = [h \in Hosts |-> <<>>]
  /\ synced = [h \in Hosts |-> 0]
  /\ stored = [h \in Hosts |-> <<>>]
  /\ track_seen = [h \in Hosts |-> FALSE]
  /\ tracker_call = NoCall

InitLoop(running) == InitLoopAt(running, "start")

\* One host runs one of the four loops.
InputParams == [num_split_steps : Budgets, num_batches : InputLengths]

NoBatches == batches = <<>>

\* The loops are followed with their passes taken as a whole.
\* The input of a split yields the same number of batches on every host.
SameOnAllHosts ==
  inputs = [h \in Hosts |-> [sp \in Splits |-> input_p[sp].num_batches]]

NoDecoding ==
  /\ input_p = [sp \in Splits |-> [num_split_steps |-> -1, num_batches |-> 0]]
  /\ SameOnAllHosts

Init ==
  /\ cfg \in Configs
  /\ InitLoop({0})
  /\ NoBatches
  /\ NoDecoding

Next ==
  \/ SaveCheckpoint
  \/ Loop(0)

Spec == Init /\ [][Next]_vars

\* The loop of host 0 goes on whenever it can take a step: the process is
\* scheduled, its listings, restores and passes return.  The trainer is under
\* no obligation to save a checkpoint.
SpecLive == Init /\ [][Next]_vars /\ WF_vars(Loop(0))

\* Every host runs the same loop on a store with consistent listings.
InitHosts ==
  /\ cfg \in {c \in Configs : c.consistent /\ ~c.track_metric}
  /\ InitLoop(Hosts)
  /\ NoBatches
  /\ NoDecoding

NextHosts ==
  \/ SaveCheckpoint
  \/ \E h \in Hosts : Loop(h)

SpecHosts == InitHosts /\ [][NextHosts]_vars

\* The metric tracker alone: every host calls it with a sequence of values.
InitTracker ==
  /\ cfg \in {c \in Configs : c.mode = "decode_pmap" /\ c.track_metric
                               /\ c.continuous_decode /\ c.consistent}
  /\ InitLoop({})
  /\ NoBatches
  /\ NoDecoding

NextTracker ==
  \/ FeedValue
  \/ \E h \in Hosts : TrackerCall(h)

SpecTracker == InitTracker /\ [][NextTracker]_vars

\* The metric tracker with its two writes as separate steps.
NextWrites ==
  \/ FeedValue
  \/ \E h \in Hosts : TrackerUpdate(h)
  \/ \E h \in Hosts : TrackerSave(h)

SpecWrites == InitTracker /\ [][NextWrites]_vars

\* The loop of host 0 with its passes followed step by step, on a store
\* with consistent listings; every split has the same budget and input length.
InitRun ==
  /\ cfg \in {c \in Configs : c.consistent /\ ~c.use_ema /\ ~c.track_metric}
  /\ InitLoop({0})
  /\ NoBatches
  /\ \E p \in InputParams : input_p = [sp \in Splits |-> p]
  /\ SameOnAllHosts

NextRun ==
  \/ SaveCheckpoint
  \/ RetrieveCheckpointStep(0)
  \/ InitialRestore(0)
  \/ ListLastCheckpointStep(0)
  \/ StartPass(0)
  \/ EvalStep(0)
  \/ EvalBudgetReached(0)
  \/ EvalInputExhausted(0)
  \/ EvalFinishSplit(0)
  \/ SkipCheck
  \/ DecodeStep
  \/ \E h \in Hosts : BudgetReached(h)
  \/ \E h \in Hosts : InputExhausted(h)
  \/ \E h \in Hosts : FinishSplit(h)
  \/ EndPass(0)
  \/ StartEval(0)
  \/ EndEval(0)
  \/ PassRaised(0)
  \/ Decide(0)
  \/ WaitForCheckpoint(0)
  \/ Restore(0)

SpecRun == InitRun /\ [][NextRun]_vars

\* decode() called with or without restore_checkpoint_dir, and the decode
\* loop of host 0 it calls, with the passes followed step by step.
EntryConfigs ==
  {c \in [mode : {"decode_pmap", "decode_spmd"}, use_ema : {FALSE},
          track_metric : {FALSE}, continuous_decode : BOOLEAN,
          consistent : {TRUE}, restore_checkpoint_dir : BOOLEAN] : TRUE}

InitEntry ==
  /\ cfg \in EntryConfigs
  /\ InitLoopAt({0}, "decode")
  /\ NoBatches
  /\ \E p \in InputParams : input_p = [sp \in Splits |-> p]
  /\ SameOnAllHosts

NextEntry ==
  \/ SaveCheckpoint
  \/ decode(0)
  \/ RetrieveCheckpointStep(0)
  \/ InitialRestore(0)
  \/ ListLastCheckpointStep(0)
  \/ StartPass(0)
  \/ SkipCheck
  \/ DecodeStep
  \/ \E h \in Hosts : BudgetReached(h)
  \/ \E h \in Hosts : InputExhausted(h)
  \/ \E h \in Hosts : FinishSplit(h)
  \/ StartEval(0)
  \/ EndEval(0)
  \/ Decide(0)
  \/ WaitForCheckpoint(0)
  \/ Restore(0)

SpecEntry == InitEntry /\ [][NextEntry]_vars

\* in any order, over splits of every budget and input length.
InitDecode ==
  /\ cfg \in {c \in Configs : c.mode \in {"decode_pmap", "decode_spmd"}
                               /\ ~c.use_ema /\ c.continuous_decode /\ c.consistent}
  /\ InitLoop({})
  /\ NoBatches
  /\ input_p \in [Splits -> InputParams]
  /\ SameOnAllHosts

NextDecode ==
  \/ DecodeOnce
  \/ SkipCheck
  \/ DecodeStep
  \/ \E h \in Hosts : BudgetReached(h)
  \/ \E h \in Hosts : InputExhausted(h)
  \/ \E h \in Hosts : FinishSplit(h)

SpecDecode == InitDecode /\ [][NextDecode]_vars

\* The inputs of the splits of the passes below: an input without batches,
\* one that is read to its end in every pass, and one with a fixed budget of
\* all its batches, which every second pass finds at its end.
SkipInputs ==
  {p \in InputParams : /\ p.num_batches \in {0, MaxBudget}
                       /\ p.num_batches = 0 => p.num_split_steps = -1}

\* Decode passes of both strategies, with and without a tracked metric, on
\* the train states of the steps in DecodeSteps in any order.
InitSkip ==
  /\ cfg \in {c \in Configs : c.mode \in {"decode_pmap", "decode_spmd"}
                               /\ ~c.use_ema /\ c.continuous_decode /\ c.consistent}
  /\ InitLoop({})
  /\ NoBatches
  /\ input_p \in [Splits -> SkipInputs]
  /\ inputs = [h \in Hosts |-> [sp \in Splits |-> input_p[sp].num_batches]]

SpecSkip == InitSkip /\ [][NextDecode]_vars


\* Decode passes of decode_once_spmd_model over inputs of which every host
\* reads its own part (inp.infeed_host_index = jax.process_index()): the
\* parts of the hosts may yield different numbers of batches.
InitShards ==
  /\ cfg \in {c \in Configs : c.mode = "decode_spmd" /\ ~c.use_ema /\ ~c.track_metric
                               /\ c.continuous_decode /\ c.consistent}
  /\ InitLoop({})
  /\ NoBatches
  /\ inputs \in [Hosts -> [Splits -> InputLengths]]
  /\ \E budget \in [Splits -> Budgets] :
       input_p = [sp \in Splits |-> [num_split_steps |-> budget[sp],
                                     num_batches |-> inputs[0][sp]]]

SpecShards == InitShards /\ [][NextDecode]_vars

\* Evaluation and decode passes, on the train states of the steps in
\* DecodeSteps in any order, over splits of every budget and input length.
\* The metric updates of the batches, merged in any order.
InitMerge ==
  /\ cfg \in {c \in Configs : c.mode = "decode_pmap" /\ ~c.use_ema /\ ~c.track_metric
                               /\ c.continuous_decode /\ c.consistent}
  /\ InitLoop({})
  /\ NoDecoding
  /\ batches \in [BatchIds -> MetricDicts]

NextMerge == \E i \in BatchIds : MergeBatch(i)

SpecMerge == InitMerge /\ [][NextMerge]_vars

\* The weighted scalars of the batches of an evaluation split, stored in the
\* order of the input.
InitWeighted ==
  /\ cfg \in {c \in Configs : c.mode = "evaluate_pmap" /\ ~c.use_ema /\ c.consistent}
  /\ InitLoop({})
  /\ NoDecoding
  /\ batches \in [BatchIds -> WeightedScalarDicts]

NextWeighted == \E i \in BatchIds : StoreBatch(i)

SpecWeighted == InitWeighted /\ [][NextWeighted]_vars

InitPass ==
  /\ cfg \in {c \in Configs : ~c.use_ema /\ ~c.track_metric
                               /\ c.continuous_decode /\ c.consistent}
  /\ InitLoop({})
  /\ NoBatches
  /\ input_p \in [Splits -> InputParams]
  /\ SameOnAllHosts

NextEval ==
  \/ EvalOnce(0)
  \/ EvalStep(0)
  \/ EvalBudgetReached(0)
  \/ EvalInputExhausted(0)
  \/ EvalFinishSplit(0)

NextPass == NextEval \/ NextDecode

SpecPass == InitPass /\ [][NextPass]_vars

\* ------------------------------------------------------------------------
\* Properties of the continuous loops.
\* ------------------------------------------------------------------------

\* C1: when the wait for a new checkpoint ends with a step while a step is
\* known, that step is strictly greater than the last known step, so the
\* steps the loop adopts are strictly increasing and a listing that reports a
\* smaller step is never adopted.
C1_WaitReturnsGreaterStep ==
  \A h \in Hosts :
    (pc[h] = "restore" /\ last_checkpoint_step[h] # None
                       /\ new_checkpoint_step[h] # None)
      => new_checkpoint_step[h] > last_checkpoint_step[h]

\* C2: the checkpoint step used for the stop decision is the step of the
\* state the pass just run was executed on.
C2_DecisionStepIsSnapshotStep ==
  \A h \in Hosts :
    (pc[h] = "decide" /\ cfg.continuous_decode /\ last_checkpoint_step[h] # None)
      => last_checkpoint_step[h] = model_states[h].step

\* C3: after a pass with known checkpoint step s the loop stops iff the early
\* stopping function answers true or s + save_interval_steps > num_train_steps,
\* otherwise it goes on to wait; is_final given to the function is exactly
\* s + save_interval_steps > num_train_steps.
C3_StopIffCallbackOrFinal ==
  [][\A h \in Hosts :
       (pc[h] = "decide" /\ pc'[h] # "decide" /\ cfg.continuous_decode)
         => IF last_checkpoint_step[h] # None
              THEN /\ decision'[h].ckpt_step = last_checkpoint_step[h]
                   /\ decision'[h].is_final =
                        (last_checkpoint_step[h] + save_interval_steps > num_train_steps)
                   /\ pc'[h] = IF \/ decision'[h].should_stop
                                  \/ last_checkpoint_step[h] + save_interval_steps
                                       > num_train_steps
                                 THEN "done" ELSE "wait"
              ELSE pc'[h] = "wait"]_vars

\* A loop that stopped on the final checkpoint although the early stopping
\* function answered false.
C3_Witness ==
  \E h \in Hosts :
    /\ pc[h] = "done" /\ cfg.continuous_decode
    /\ decision[h].calls = 1 /\ ~decision[h].should_stop /\ decision[h].is_final

\* C4 as stated: after every pass of a continuous loop the early stopping
\* function is consulted exactly once, also after a first pass without any
\* checkpoint.
C4_CallbackOncePerPass ==
  [][\A h \in Hosts :
       (pc[h] = "decide" /\ pc'[h] # "decide" /\ cfg.continuous_decode)
         => decision'[h].calls = 1]_vars

\* C4 amended: after every pass of a continuous loop the early stopping
\* function is consulted exactly once when last_checkpoint_step is a step, and
\* not at all when it is None; the loop then goes on to wait.
C4_CallbackOnceWhenStepKnown ==
  [][\A h \in Hosts :
       (pc[h] = "decide" /\ pc'[h] # "decide" /\ cfg.continuous_decode)
         => /\ decision'[h].calls = IF last_checkpoint_step[h] # None THEN 1 ELSE 0
            /\ last_checkpoint_step[h] = None => pc'[h] = "wait"]_vars

\* A pass with a known checkpoint step has been decided, with one call of the
\* function, and the loop went on to wait.
C4_Witness ==
  \E h \in Hosts :
    /\ cfg.continuous_decode
    /\ pc[h] = "wait" /\ last_checkpoint_step[h] # None /\ decision[h].calls = 1

\* C5: the hosts of a run adopt the same sequence of checkpoint steps: in the
\* same iteration every host runs its pass on the same step.
C5_HostsAdoptSameSteps ==
  \A g, h \in Hosts :
    (/\ pc[g] \in {"run", "decide"} /\ pc[h] \in {"run", "decide"}
     /\ iteration[g] = iteration[h])
      => model_states[g].step = model_states[h].step

\* ------------------------------------------------------------------------
\* Properties of the metric tracker.
\* ------------------------------------------------------------------------

MinOf(S) == CHOOSE x \in S : \A y \in S : x <= y

\* The i-th call has been made by every host.
Completed(i) == i < Len(fed) \/ pending = {}

SavesAfter(i) == IF i < Len(fed) THEN fed[i + 1].saves_before ELSE tracker_saves

BestAfter(i) == IF i < Len(fed) THEN fed[i + 1].best_before ELSE tracker.metric_value

\* The calls that saved a checkpoint.
SavingCalls == {i \in 1..Len(fed) : Completed(i) /\ SavesAfter(i) > fed[i].saves_before}

\* C8: the record is rewritten and a checkpoint saved exactly for the values
\* strictly smaller than the best value so far (an equal value changes
\* nothing), the best value never increases and is the minimum of the values
\* seen; 5.0, 7.0, 3.0, 3.0, 2.9 on an empty record saves at the 1st, 3rd and
\* 5th value and leaves 2.9.
C8_TrackerKeepsMinimum ==
  /\ \A i \in 1..Len(fed) :
       Completed(i) =>
         /\ SavesAfter(i) - fed[i].saves_before =
              IF fed[i].value < fed[i].best_before THEN 1 ELSE 0
         /\ BestAfter(i) <= fed[i].best_before
         /\ BestAfter(i) = MinOf({fed[j].value : j \in 1..i})
  /\ (Len(fed) > 0 /\ pending = {}
        /\ fed[Len(fed)].value < fed[Len(fed)].best_before)
       => /\ tracker = [metric_value |-> fed[Len(fed)].value,
                        global_step |-> Len(fed) * save_interval_steps]
          /\ tracker_ckpt.step = Len(fed) * save_interval_steps
  /\ (pending = {} /\ [i \in 1..Len(fed) |-> fed[i].value] = <<50, 70, 30, 30, 29>>)
       => /\ SavingCalls = {1, 3, 5}
          /\ tracker_saves = 3
          /\ tracker.metric_value = 29

\* The five values have been fed and every host has made the fifth call.
C8_Witness ==
  /\ pending = {}
  /\ [i \in 1..Len(fed) |-> fed[i].value] = <<50, 70, 30, 30, 29>>
  /\ tracker_saves = 3

\* C9: when every host calls the tracker with an improvement, the record is
\* rewritten and the checkpoint saved exactly once, by host 0; the calls of
\* the other hosts change nothing.
C9_OnlyHostZeroPersists ==
  /\ tracker_writers \subseteq {0}
  /\ \A i \in 1..Len(fed) :
       (Completed(i) /\ fed[i].value < fed[i].best_before)
         => SavesAfter(i) = fed[i].saves_before + 1
  /\ (Len(fed) > 0 /\ 0 \in pending)
       => /\ tracker_saves = fed[Len(fed)].saves_before
          /\ tracker.metric_value = fed[Len(fed)].best_before

\* Every host has made a call with an improvement, host 0 last.
C9_Witness ==
  /\ Len(fed) > 1 /\ pending = {}
  /\ fed[Len(fed)].value < fed[Len(fed)].best_before
  /\ tracker_saves = fed[Len(fed)].saves_before + 1
  /\ tracker_writers = {0}

\* C10: every checkpoint the tracker saves holds the variables and the step
\* of the state of the pass, with the optimizer state trimmed.
C10_TrackerCheckpointTrimmed ==
  tracker_ckpt # NoState
    => /\ tracker_ckpt.opt_states = "empty"
       /\ tracker_ckpt.step = tracker.global_step

\* ------------------------------------------------------------------------
\* Properties of the decode pass.
\* ------------------------------------------------------------------------

\* C6: when persisted decoder outputs of (split, step) exist as the pass
\* reaches the split, the pass makes no call of the decode step for it and
\* reports 0 steps and None metrics, on every host and in both strategies.
C6_PersistedOutputsSkipPass ==
  \A h \in Hosts : \A i \in 1..Len(returned[h]) :
    returned[h][i].existed =>
      /\ returned[h][i].executor_calls = 0
      /\ returned[h][i].num_decode_steps = 0
      /\ returned[h][i].decode_metrics = "None"

\* C7: the outputs of a (split, step) are written at most once over all
\* passes, once when a pass for them has finished, and by host 0 only.
C7_OutputsWrittenOnceByHostZero ==
  /\ \A f \in Splits \X DecodeSteps : out_writes[f] <= 1
  /\ \A f \in Splits \X DecodeSteps :
       (step_i = f[2] /\ \A h \in Hosts : split[h] > f[1] \/ dpc[h] = "idle")
         => out_writes[f] >= 1
  /\ out_writers \subseteq {0}

\* ------------------------------------------------------------------------
\* Properties of the evaluation pass.
\* ------------------------------------------------------------------------

\* The budget of the split host h is in, and the batches its input still has.
BudgetOf(h) == input_p[split[h]].num_split_steps

Remaining(h) == inputs[h][split[h]] - input_pos[h][split[h]]

\* C11: a split with a fixed budget N > 0 whose input yields at least N
\* batches: the evaluation pass calls the step N times, reports N steps, does
\* not reset the input, and raises no error.
C11_FixedBudgetPass ==
  /\ [](\A h \in Hosts :
          (~IsDecode /\ dpc[h] = "eval_finish" /\ BudgetOf(h) > 0) =>
            /\ executor_calls[h] = BudgetOf(h)
            /\ step_num[h] = BudgetOf(h)
            /\ resets[h] = 0)
  /\ [](\A h \in Hosts : \A i \in 1..Len(returned[h]) :
          (~IsDecode /\ input_p[i].num_split_steps > 0) =>
            /\ returned[h][i].num_decode_steps = input_p[i].num_split_steps
            /\ returned[h][i].executor_calls = input_p[i].num_split_steps)
  /\ [][\A h \in Hosts :
          (/\ ~IsDecode /\ dpc[h] = "eval_loop" /\ BudgetOf(h) > 0
           /\ Remaining(h) >= BudgetOf(h) - step_num[h])
            => dpc'[h] # "raised"]_vars

\* A split with a fixed budget has been evaluated and reported.
C11_Witness ==
  /\ ~IsDecode
  /\ \E i \in 1..Len(returned[0]) :
       /\ input_p[i].num_split_steps = MaxBudget
       /\ returned[0][i].executor_calls = MaxBudget
       /\ returned[0][i].num_decode_steps = MaxBudget

\* C12: in an evaluation pass, when the input of a split with a fixed budget
\* N > 0 ends after fewer than N batches, the pass raises; the error leaves
\* the pass and the loop that called it: the pass returns no lists, no later
\* split runs, no stop decision is taken and no further pass starts.
C12_EvalRaisesOnShortInput ==
  /\ [][\A h \in Hosts :
          (/\ ~IsDecode /\ dpc[h] = "eval_loop" /\ BudgetOf(h) > 0
           /\ step_num[h] < BudgetOf(h) /\ ~HasNext(h))
            => (dpc'[h] = "raised" \/ UNCHANGED vars)]_vars
  /\ [][\A h \in Hosts :
          dpc[h] = "raised" =>
            /\ dpc'[h] = "raised"
            /\ returned'[h] = returned[h]
            /\ split'[h] = split[h]
            /\ executor_calls'[h] = executor_calls[h]
            /\ passes' = passes
            /\ decision' = decision]_vars
  /\ [](\A h \in Hosts : dpc[h] = "raised" => Len(returned[h]) < split[h])

\* The input ended after some batches, fewer than the budget, and the pass
\* raised in its first split.
C12_Witness ==
  /\ ~IsDecode
  /\ dpc[0] = "raised"
  /\ split[0] = 1
  /\ executor_calls[0] > 0
  /\ executor_calls[0] < BudgetOf(0)

\* C13: in a decode pass, when the input of a split with a fixed budget N > 0
\* ends after fewer than N batches, the pass raises and persists no outputs
\* for that split and step: no host leaves the step loop for the part that
\* writes the outputs with fewer than N calls made.
C13_DecodeRaisesOnShortInput ==
  /\ [][\A h \in Hosts :
          (/\ IsDecode /\ dpc[h] = "loop" /\ BudgetOf(h) > 0
           /\ step_num[h] < BudgetOf(h) /\ ~HasNext(h))
            => (dpc'[h] = "raised" \/ dpc'[h] = "loop")]_vars
  /\ [](\A h \in Hosts :
          (IsDecode /\ dpc[h] = "finish" /\ BudgetOf(h) > 0)
            => executor_calls[h] = BudgetOf(h))

\* C14: a split with budget -1 whose input yields K batches: a pass that runs
\* the split (evaluation or decode) calls the step K times, raises no error
\* and resets the input exactly once, so that every pass starts the split at
\* the beginning of its input and sees K batches again.
C14_RunUntilExhausted ==
  \A h \in Hosts :
    /\ (dpc[h] \in {"finish", "eval_finish"} /\ BudgetOf(h) < 0) =>
         /\ executor_calls[h] = input_p[split[h]].num_batches
         /\ resets[h] = 1
         /\ input_pos[h][split[h]] = 0
    /\ (dpc[h] \in {"loop", "eval_loop"} /\ BudgetOf(h) < 0) =>
         /\ input_pos[h][split[h]] = executor_calls[h]
         /\ resets[h] = 0
    /\ dpc[h] = "raised" => BudgetOf(h) > 0

\* A second pass has run a split with budget -1 to the end of its input.
C14_Witness ==
  /\ passes >= 2
  /\ dpc[0] \in {"finish", "eval_finish"}
  /\ BudgetOf(0) < 0
  /\ executor_calls[0] = MaxBudget + 1
  /\ resets[0] = 1

\* C15: the number of steps a pass reports for a split equals the number of
\* calls of the step it made for that split, whether the split ended by
\* reaching its budget or by the end of its input.
C15_ReportedStepsAreCalls ==
  \A h \in Hosts : \A i \in 1..Len(returned[h]) :
    returned[h][i].num_decode_steps = returned[h][i].executor_calls

\* ------------------------------------------------------------------------
\* Properties of the restores and of the wait.
\* ------------------------------------------------------------------------

\* A freshly initialized state is at step 0; checkpoints are at later steps.
IsFresh(ms) == ms # NoState /\ ms.step = 0

\* C16: with no checkpoint in the store at the first restore, the restore
\* does not fail and the first pass runs on a freshly initialized state; a
\* pass of a later iteration never runs on a freshly initialized state but on
\* the state of a checkpoint.
C16_FreshStateOnlyFirst ==
  /\ [][\A h \in Hosts :
          (pc[h] = "get_model_states" /\ checkpoints = {} /\ pc'[h] # pc[h])
            => (pc'[h] = "list_last" /\ IsFresh(model_states'[h]))]_vars
  /\ [](\A h \in Hosts :
          (pc[h] \in {"run", "decide"} /\ iteration[h] >= 2)
            => /\ model_states[h] # NoState
               /\ ~IsFresh(model_states[h])
               /\ model_states[h].step \in checkpoints)

\* C17: while a host waits for a new checkpoint with a known last step, a
\* listing that finds no step at all is nothing new: the host stays in the
\* wait, raises no error and does not leave the wait with an absent step.
C17_AbsentStepKeepsWaiting ==
  /\ [][\A h \in Hosts :
          (/\ pc[h] = "wait" /\ last_checkpoint_step[h] # None
           /\ pc'[h] # pc[h] \/ new_checkpoint_step'[h] # new_checkpoint_step[h]
           /\ new_checkpoint_step'[h] = None)
            => pc'[h] = "wait"]_vars
  /\ [](\A h \in Hosts :
          (pc[h] = "restore" /\ last_checkpoint_step[h] # None)
            => new_checkpoint_step[h] # None)

\* ------------------------------------------------------------------------
\* Properties of the merge of clu metrics.
\* ------------------------------------------------------------------------

\* C18: merging the metrics of a batch into a populated accumulator whose key
\* set differs from the batch's raises the key-mismatch error, and the
\* accumulator is left as it was; no batch with a different key set is ever
\* merged into a populated accumulator.
C18_KeyMismatchRaises ==
  /\ [](failed # 0 =>
          /\ IsPopulated(metrics)
          /\ DOMAIN metrics # DOMAIN batches[failed])
  /\ [][failed' # failed => (metrics' = metrics /\ merged' = merged)]_vars
  /\ [][\A i \in BatchIds :
          (IsPopulated(metrics) /\ DOMAIN metrics # DOMAIN batches[i]
           /\ merged' # merged)
            => merged' # Append(merged, i)]_vars

\* A populated accumulator has refused a batch with another, non-empty key set.
C18_Witness ==
  /\ failed # 0
  /\ Len(merged) >= 1
  /\ batches[failed] # EmptyMetrics
  /\ DOMAIN metrics # DOMAIN batches[failed]
  /\ metrics = batches[merged[1]]

\* C19: merging with an empty accumulator is the identity on both sides: for
\* every accumulator a, merge(empty, a) and merge(a, empty) raise no error and
\* yield a.
C19_EmptyIsIdentity ==
  /\ ~merge_clu_metrics_raises(EmptyMetrics, metrics)
  /\ merge_clu_metrics(EmptyMetrics, metrics) = metrics
  /\ ~merge_clu_metrics_raises(metrics, EmptyMetrics)
  /\ merge_clu_metrics(metrics, EmptyMetrics) = metrics

\* The finalized values of two accumulators are the same: the same names and
\* for each the same weighted mean total / weight.
SameFinalized(m1, m2) ==
  /\ DOMAIN m1 = DOMAIN m2
  /\ \A k \in DOMAIN m1 : m1[k].total * m2[k].weight = m2[k].total * m1[k].weight

AllKeysMatch == \A i, j \in BatchIds : DOMAIN batches[i] = DOMAIN batches[j]

\* C20: for three batches with the same key set the finalized values do not
\* depend on the order or the grouping of the merges: the accumulator after
\* merging them one by one in any order equals merge(A, merge(B, C)).
C20_MergeAssociativeCommutative ==
  (AllKeysMatch /\ Len(merged) = Cardinality(BatchIds)) =>
    /\ failed = 0
    /\ SameFinalized(metrics,
         merge_clu_metrics(batches[1],
                           merge_clu_metrics(batches[2], batches[3])))
    /\ SameFinalized(metrics,
         merge_clu_metrics(merge_clu_metrics(batches[3], batches[2]),
                           batches[1]))

\* Three batches with different values of the same two metrics have been
\* merged in an order other than A, B, C.
C20_Witness ==
  /\ AllKeysMatch
  /\ DOMAIN batches[1] = Names
  /\ merged = <<3, 1, 2>>
  /\ batches[1] # batches[2]
  /\ batches[2] # batches[3]
  /\ metrics["bleu"].weight > Cardinality(BatchIds)

\* ------------------------------------------------------------------------
\* Properties of the weighted scalars.
\* ------------------------------------------------------------------------

\* The batches stored so far that observed the metric k.
Observers(k) == {i \in 1..Len(merged) : k \in DOMAIN batches[merged[i]]}

RECURSIVE ObservedValueWeight(_, _)
ObservedValueWeight(S, k) ==
  IF S = {} THEN 0
  ELSE LET i == CHOOSE j \in S : TRUE
       IN  batches[merged[i]][k].value * batches[merged[i]][k].weight
             + ObservedValueWeight(S \ {i}, k)

RECURSIVE ObservedWeight(_, _)
ObservedWeight(S, k) ==
  IF S = {} THEN 0
  ELSE LET i == CHOOSE j \in S : TRUE
       IN  batches[merged[i]][k].weight + ObservedWeight(S \ {i}, k)

\* C21: the value reported for a metric name is the weight-weighted mean of
\* all the per-batch observations of that name, sum(value * weight) /
\* sum(weight); for two observations (v1, w1), (v2, w2) it is
\* (v1 * w1 + v2 * w2) / (w1 + w2).  The values are compared as fractions,
\* for the names whose weights do not sum to 0.
C21_ReportedIsWeightedMean ==
  LET reported == as_float_dict(metrics)
  IN  /\ DOMAIN reported = {k \in Names : Observers(k) # {}}
      /\ \A k \in DOMAIN reported :
           /\ Len(metrics[k]) = Cardinality(Observers(k))
           /\ ObservedWeight(Observers(k), k) > 0 =>
                /\ reported[k].den # 0
                /\ reported[k].num * ObservedWeight(Observers(k), k)
                     = ObservedValueWeight(Observers(k), k) * reported[k].den
           /\ (Len(metrics[k]) = 2
                 /\ metrics[k][1].weight + metrics[k][2].weight > 0) =>
                LET v1 == metrics[k][1].value
                    w1 == metrics[k][1].weight
                    v2 == metrics[k][2].value
                    w2 == metrics[k][2].weight
                IN  reported[k].num * (w1 + w2) = (v1 * w1 + v2 * w2) * reported[k].den

\* Two observations of a metric, 0 with weight 1 and MaxTotal with weight
\* MaxWeight: the reported value is not MaxTotal / 2, the mean of the two.
C21_Witness ==
  /\ Len(merged) = 2
  /\ "bleu" \in DOMAIN metrics
  /\ metrics["bleu"] = <<[value |-> 0, weight |-> 1],
                         [value |-> MaxTotal, weight |-> MaxWeight]>>
  /\ as_float(metrics["bleu"]).num * 2 # MaxTotal * as_float(metrics["bleu"]).den

\* ------------------------------------------------------------------------
\* Properties of the barriers, the tracker calls and the accumulators of the
\* decode pass.
\* ------------------------------------------------------------------------

\* C22: in decode_once_spmd_model host 0 writes the decoder outputs of a
\* (split, step) only after a barrier of that split's pass which every host
\* has passed, also in a pass whose input is exhausted at the first fetch.
C22_WriteAfterBarrier ==
  [][(IsPartitioned /\ decoder_out' # decoder_out)
       => \A h \in Hosts : synced[h] >= 1]_vars

\* ------------------------------------------------------------------------
\* Properties of the loop with its passes followed step by step.
\* ------------------------------------------------------------------------

\* C23: once a pass has started for a snapshot, no stop decision is taken and
\* no wait or restore begins until every split of the pass has finished: the
\* loop leaves the pass for the stop decision (in a decode loop: for the
\* evaluation pass and then the stop decision) only with the lists of all the
\* splits returned (or by an error, which leaves the loop), and while the pass
\* runs the decision, the known steps and the snapshot stay as they are.
C23_PassRunsToCompletion ==
  /\ [][\A h \in Hosts :
          (pc[h] = "in_pass" /\ pc'[h] # "in_pass") =>
            \/ /\ pc'[h] = IF IsDecode THEN "in_eval" ELSE "decide"
               /\ Len(returned[h]) = NumSplits
               /\ dpc[h] = "idle"
            \/ /\ pc'[h] = "raised"
               /\ dpc[h] = "raised"]_vars
  /\ [][\A h \in Hosts :
          (pc[h] = "in_eval" /\ pc'[h] # "in_eval") =>
            pc'[h] \in {"decide", "raised"}]_vars
  /\ [][\A h \in Hosts :
          pc[h] \in {"in_pass", "in_eval"} =>
            /\ decision'[h] = decision[h]
            /\ last_checkpoint_step'[h] = last_checkpoint_step[h]
            /\ new_checkpoint_step'[h] = new_checkpoint_step[h]
            /\ model_states'[h] = model_states[h]]_vars
  /\ [](\A h \in Hosts :
          (pc[h] = "decide" /\ passes > 0) =>
            /\ Len(returned[h]) = NumSplits
            /\ dpc[h] = "idle")
  /\ [][\A h \in Hosts :
          decision'[h] # decision[h] =>
            (pc[h] = "decide" /\ Len(returned[h]) = NumSplits)]_vars

\* A continuous loop has decided to go on after a second pass, whose last
\* split made calls of the step.
C23_Witness ==
  /\ cfg.continuous_decode
  /\ pc[0] = "wait"
  /\ iteration[0] = 2
  /\ decision[0].calls = 1
  /\ Len(returned[0]) = NumSplits
  /\ returned[0][NumSplits].executor_calls > 0

\* C24: in a decode pass of either strategy, when a tracked metric name is
\* configured and the processed metrics of a split hold it, the pass calls the
\* metric tracker for that split, with the value of the metric, the step and
\* the snapshot of the pass.
C24_TrackedMetricReachesTracker ==
  [][\A h \in Hosts :
       (/\ cfg.track_metric /\ track_seen[h]
        /\ dpc[h] = "finish" /\ dpc'[h] # "finish")
         => /\ tracker_call'.host = h
            /\ tracker_call'.split = split[h]
            /\ tracker_call'.step = step_i
            /\ tracker_call'.m_value \in Values
            /\ tracker_call'.state = StateOfPass(step_i)]_vars

InStepLoop(state) == state \in {"loop", "eval_loop"}

AfterStepLoop(state) == state \in {"finish", "eval_finish"}

\* The batches host h has drawn from the input of its split in this pass: the
\* last executor_calls[h] batches before the position of the input (before
\* its end, when the input was reset).
ConsumedInPass(h) ==
  LET last == IF resets[h] > 0 THEN inputs[h][split[h]]
                               ELSE input_pos[h][split[h]]
  IN  [j \in 1..executor_calls[h] |-> last - executor_calls[h] + j]

RECURSIVE OutputsOf(_)
OutputsOf(bs) ==
  IF bs = <<>> THEN <<>> ELSE process_decode_out(bs[1]) \o OutputsOf(Tail(bs))

\* C25: the accumulators and the buffer of the outputs of a split are empty
\* when a pass over the split starts, and what they hold, what is reported and
\* what is persisted for the pass comes from the batches drawn in that pass
\* of that split only.
C25_AccumulatorsStartEmpty ==
  /\ [][\A h \in Hosts :
          (/\ InStepLoop(dpc'[h])
           /\ ~InStepLoop(dpc[h]) \/ split'[h] # split[h])
            => /\ stored'[h] = <<>>
               /\ executor_calls'[h] = 0
               /\ IsDecode => processed_decodes'[h] = <<>>]_vars
  /\ [](\A h \in Hosts :
          (InStepLoop(dpc[h]) \/ AfterStepLoop(dpc[h])) =>
            /\ stored[h] = ConsumedInPass(h)
            /\ (IsDecode /\ h = 0) =>
                 processed_decodes[h] = OutputsOf(ConsumedInPass(h)))
  /\ [][\A f \in Splits \X Steps :
          decoder_out'[f] # decoder_out[f] =>
            /\ f = <<split[0], step_i>>
            /\ decoder_out'[f] = OutputsOf(ConsumedInPass(0))]_vars
  /\ [][\A h \in Hosts :
          (AfterStepLoop(dpc[h]) /\ ~AfterStepLoop(dpc'[h])) =>
            returned'[h][split[h]].executor_calls = Len(stored[h])]_vars

\* A later pass has run the last split over all the batches of its input,
\* which the pass before had run as well.
C25_Witness ==
  /\ passes >= 2
  /\ split[0] = NumSplits
  /\ AfterStepLoop(dpc[0])
  /\ BudgetOf(0) < 0
  /\ Len(stored[0]) = MaxBudget + 1
  /\ stored[0][1] = 1

\* The outputs of n consecutive batches of the input, from batch b on.
OutputsFrom(b, n) == OutputsOf([j \in 1..n |-> b + j - 1])

\* The batches whose outputs are in a file, when it is one of whole batches.
BatchesIn(file) == Len(file) \div Len(process_decode_out(1))

\* C26: within the pass of a split the batches are drawn in the order of the
\* input, each batch being the one after the batch drawn before; the buffer
\* of host 0 grows by the outputs of the batch just drawn, at its end; and the
\* file host 0 persists is the concatenation of the outputs of the batches in
\* the order they were drawn: nothing reordered, lost or duplicated.
C26_OutputsInInputOrder ==
  /\ [][\A h \in Hosts :
          (IsDecode /\ dpc[h] = "loop" /\ executor_calls'[h] # executor_calls[h]) =>
            /\ input_pos'[h][split[h]] = input_pos[h][split[h]] + 1
            /\ stored'[h] = Append(stored[h], input_pos'[h][split[h]])
            /\ h = 0 => processed_decodes'[h] =
                          processed_decodes[h] \o process_decode_out(input_pos'[h][split[h]])]_vars
  /\ [](\A h \in Hosts :
          (IsDecode /\ dpc[h] \in {"loop", "finish"}) =>
            \A j \in 1..(Len(stored[h]) - 1) : stored[h][j + 1] = stored[h][j] + 1)
  /\ [][\A f \in Splits \X Steps :
          decoder_out'[f] # decoder_out[f] =>
            /\ decoder_out'[f] = OutputsOf(stored[0])
            /\ Len(decoder_out'[f]) = executor_calls[0] * Len(process_decode_out(1))]_vars
  /\ [](\A f \in Splits \X Steps :
          (decoder_out[f] # NoFile /\ decoder_out[f] # <<>>) =>
            /\ decoder_out[f] = OutputsFrom(decoder_out[f][1][1], BatchesIn(decoder_out[f]))
            /\ \A i, j \in 1..Len(decoder_out[f]) :
                 i # j => decoder_out[f][i] # decoder_out[f][j])

\* Host 0 has persisted the outputs of all the batches of an input.
C26_Witness ==
  \E f \in Splits \X Steps :
    /\ decoder_out[f] # NoFile
    /\ decoder_out[f] = OutputsFrom(1, MaxBudget + 1)

\* C27: the lists a pass returns have one entry per configured split, in the
\* configured order: each split adds one entry at the end, at its own
\* position, so that entry i is the entry of split i; a skipped decode split
\* takes its position with None metrics and 0 steps.
C27_OneEntryPerSplit ==
  /\ [][\A h \in Hosts :
          returned'[h] # returned[h] =>
            \/ returned'[h] = <<>>
            \/ /\ Len(returned'[h]) = split[h]
               /\ split'[h] = split[h] + 1
               /\ returned'[h] = Append(returned[h], returned'[h][split[h]])]_vars
  /\ [](\A h \in Hosts :
          /\ Len(returned[h]) <= NumSplits
          /\ (dpc[h] = "idle" /\ passes > 0 /\ (IsDecode \/ h = 0))
               => Len(returned[h]) = NumSplits
          /\ \A i \in 1..Len(returned[h]) :
               /\ returned[h][i].decode_metrics = "None" =>
                    (returned[h][i].num_decode_steps = 0 /\ IsDecode)
               /\ (returned[h][i].decode_metrics # "None"
                     /\ input_p[i].num_split_steps < 0)
                    => returned[h][i].executor_calls = input_p[i].num_batches
               /\ (returned[h][i].decode_metrics # "None"
                     /\ input_p[i].num_split_steps > 0)
                    => returned[h][i].executor_calls <= input_p[i].num_split_steps)
  /\ [][(/\ \A h \in Hosts : dpc[h] = "probe"
         /\ can_load_decode_outs(decoder_out[<<split[0], step_i>>]))
          => \A h \in Hosts :
               /\ Len(returned'[h]) = split[h]
               /\ returned'[h][split[h]].decode_metrics = "None"
               /\ returned'[h][split[h]].num_decode_steps = 0]_vars

\* A decode pass has returned: its first split was skipped, its last one ran
\* over an input that differs from the input of the first.
C27_Witness ==
  /\ IsDecode
  /\ \A h \in Hosts : dpc[h] = "idle" /\ Len(returned[h]) = NumSplits
  /\ returned[0][1].decode_metrics = "None"
  /\ returned[0][NumSplits].decode_metrics = "metrics"
  /\ input_p[1] # input_p[NumSplits]

\* ------------------------------------------------------------------------
\* Properties of the entry of decode().
\* ------------------------------------------------------------------------

\* C28: decode called with continuous_decode and a restore checkpoint
\* directory raises ValueError before any checkpoint is listed or restored,
\* any pass over the inputs starts or any output is written.
C28_ContinuousWithRestoreDirRaises ==
  /\ [][\A h \in Hosts :
          (/\ pc[h] = "decode" /\ pc'[h] # "decode"
           /\ cfg.continuous_decode /\ cfg.restore_checkpoint_dir)
            => pc'[h] = "raised"]_vars
  /\ [](\A h \in Hosts :
          (cfg.continuous_decode /\ cfg.restore_checkpoint_dir /\ pc[h] # "off") =>
            /\ pc[h] \in {"decode", "raised"}
            /\ checkpoint_step[h] = None
            /\ last_checkpoint_step[h] = None
            /\ new_checkpoint_step[h] = None
            /\ model_states[h] = NoState
            /\ iteration[h] = 0
            /\ passes = 0
            /\ \A g \in Hosts : dpc[g] = "idle" /\ executor_calls[g] = 0
            /\ \A g \in Hosts : \A sp \in Splits : input_pos[g][sp] = 0
            /\ \A f \in Splits \X Steps : decoder_out[f] = NoFile
            /\ out_writers = {})
  /\ [](\A h \in Hosts :
          (pc[h] \notin {"off", "decode", "raised"})
            => ~(cfg.continuous_decode /\ cfg.restore_checkpoint_dir))

\* decode has raised for a continuous decode with a restore directory, in a
\* store that holds a checkpoint.
C28_Witness ==
  /\ cfg.continuous_decode /\ cfg.restore_checkpoint_dir
  /\ pc[0] = "raised"
  /\ checkpoints # {}

\* ------------------------------------------------------------------------
\* Termination of the continuous loops.
\* ------------------------------------------------------------------------

\* The store holds a checkpoint of a step s with
\* s + save_interval_steps > num_train_steps.
FinalExposed == \E s \in checkpoints : is_last_ckpt(s)

\* The loop of host h is followed no further: it would start iteration
\* MaxIterations + 1.
IterationsUsedUp(h) == pc[h] = "restore" /\ iteration[h] >= MaxIterations

\* C29: the loop ends normally only by the stop decision; the wait for a new
\* checkpoint never gives up and never raises, it goes on or ends with a
\* listing; and once the store holds a checkpoint of a final step, the loop
\* eventually stops.
C29_LoopStopsOnFinalCheckpoint ==
  /\ [][\A h \in Hosts :
          (pc[h] # "done" /\ pc'[h] = "done") => pc[h] = "decide"]_vars
  /\ [][\A h \in Hosts :
          pc[h] = "wait" => pc'[h] \in {"wait", "restore"}]_vars
  /\ \A h \in {0} :
       FinalExposed ~> (pc[h] = "done" \/ IterationsUsedUp(h))

\* C30: whenever a continuous loop stops because the checkpoint step of the
\* decision is final, the pass it ran last was executed on the snapshot of
\* that step, also when a checkpoint became visible between the first restore
\* and the listing that sets the last known step.
C30_FinalStopOnFinalSnapshot ==
  \A h \in Hosts :
    (pc[h] = "done" /\ cfg.continuous_decode /\ decision[h].is_final)
      => /\ model_states[h].step = decision[h].ckpt_step
         /\ is_last_ckpt(model_states[h].step)

\* ------------------------------------------------------------------------
\* Properties of the skip check of the decode pass.
\* ------------------------------------------------------------------------

\* C31: in a decode pass all hosts take the same skip-or-run decision for a
\* split, the one of the probe of host 0: when the hosts leave the skip check
\* either all of them enter the step loop of the split or all of them skip it,
\* and no host runs a split for which another host has a skipped entry.
C31_HostsTakeSameSkipDecision ==
  /\ [][((\A h \in Hosts : dpc[h] = "probe") /\ (dpc' # dpc \/ split' # split))
          => \A h \in Hosts :
               /\ (dpc'[h] = "loop") = (dpc'[0] = "loop")
               /\ split'[h] = split'[0]
               /\ (dpc'[h] = "loop") =
                    ~can_load_decode_outs(decoder_out[<<split[0], step_i>>])]_vars
  /\ [](\A g, h \in Hosts : \A i \in 1..Len(returned[g]) :
          i <= Len(returned[h]) =>
            (returned[g][i].decode_metrics = "None")
              = (returned[h][i].decode_metrics = "None"))
  /\ [](\A g, h \in Hosts :
          (dpc[g] \in {"loop", "finish"} /\ Len(returned[h]) >= split[g])
            => returned[h][split[g]].decode_metrics # "None")

\* In a later pass every host has skipped the first split, whose outputs are
\* persisted, and every host is in the step loop of the second.
C31_Witness ==
  /\ IsDecode /\ passes >= 2
  /\ \A h \in Hosts :
       /\ dpc[h] = "loop" /\ split[h] = 2
       /\ returned[h][1].decode_metrics = "None"
  /\ decoder_out[<<1, step_i>>] # NoFile

\* ------------------------------------------------------------------------
\* Properties of the barriers of the step loop.
\* ------------------------------------------------------------------------

\* Host h is in a turn of the step loop that draws a batch: it runs the decode
\* step and waits at the barrier of the step.
AtBarrier(h) ==
  /\ dpc[h] = "loop"
  /\ LoopCondition(input_p[split[h]].num_split_steps, step_num[h])
  /\ HasNext(h)

\* C32: in a pass of decode_once_spmd_model every host issues the same
\* sequence of barriers: while a host is in a turn that ends at the barrier of
\* a step, every other host is in that turn of that split too (none has left
\* the step loop by the end of its input or by its budget), so no host waits
\* at a barrier for ever; and the hosts report the same number of steps for
\* every split.
C32_HostsIssueSameBarriers ==
  /\ \A g, h \in Hosts :
       (IsPartitioned /\ AtBarrier(g)) =>
         /\ AtBarrier(h)
         /\ split[h] = split[g]
         /\ synced[h] = synced[g]
  /\ \A g, h \in Hosts : \A i \in 1..Len(returned[g]) :
       (IsPartitioned /\ i <= Len(returned[h])) =>
         returned[g][i].executor_calls = returned[h][i].executor_calls

\* ------------------------------------------------------------------------
\* Properties of the persisted outputs and of the skipped splits.
\* ------------------------------------------------------------------------

\* C33: once host 0 has completed a decode pass of a (split, step) without
\* error, the skip check of that (split, step) answers true on every host, so
\* that a later pass skips it; also when the pass produced no output.
C33_CompletedPassIsSkipped ==
  \A f \in Splits \X Steps :
    out_writes[f] >= 1 => \A h \in Hosts : CanLoadOnHost(h, decoder_out[f])

\* ------------------------------------------------------------------------
\* Properties of the report of the decode pass.
\* ------------------------------------------------------------------------

\* C34: when the decode pass of an iteration of a continuous loop has returned
\* on every host, the hosts hold the same report for the stop decision: for every split the same
\* decode metrics, processed metrics and number of steps.
C34_HostsReportTheSame ==
  (/\ IsDecode /\ cfg.continuous_decode /\ pc[0] = "decide"
   /\ \A h \in Hosts : dpc[h] = "idle")
    => \A h \in Hosts : returned[h] = returned[0]

\* ------------------------------------------------------------------------
\* Properties of the tracker directory.
\* ------------------------------------------------------------------------

\* C35: at every point of a call of maybe_update_min_tracked_metric, between
\* its two writes too, the tracker directory is consistent: when the record
\* names a best step, the checkpoint saved in the directory is the state of
\* that step.
C35_RecordHasItsCheckpoint ==
  tracker.global_step # None
    => /\ tracker_ckpt # NoState
       /\ tracker_ckpt.step = tracker.global_step

\* The outputs of (split, step) are persisted, with at least one entry.
HasPersistedOutputs(f) == decoder_out[f] # NoFile /\ decoder_out[f] # <<>>

\* C36: a decode split that the pass skips because its outputs are persisted
\* has no effect: the skip reads no batch and does not reset the input, makes
\* no call of the decode step or of the metric tracker and leaves the
\* persisted outputs as they are; the tracker is not called for a skipped
\* split, and outputs that are persisted are not written again.
C36_SkippedSplitHasNoEffect ==
  /\ [][((\A h \in Hosts : dpc[h] = "probe")
           /\ HasPersistedOutputs(<<split[0], step_i>>))
          => /\ input_pos' = input_pos
             /\ resets' = resets
             /\ executor_calls' = executor_calls
             /\ processed_decodes' = processed_decodes
             /\ tracker' = tracker
             /\ tracker_ckpt' = tracker_ckpt
             /\ tracker_saves' = tracker_saves
             /\ tracker_call' = tracker_call
             /\ decoder_out' = decoder_out
             /\ out_writes' = out_writes
             /\ \A h \in Hosts : dpc'[h] # "loop"]_vars
  /\ [](\A h \in Hosts : \A i \in 1..Len(returned[h]) :
          returned[h][i].decode_metrics = "None" =>
            /\ tracker_call.split # i
            /\ returned[h][i].executor_calls = 0)
  /\ [][\A f \in Splits \X Steps :
          HasPersistedOutputs(f) =>
            (decoder_out'[f] = decoder_out[f] /\ out_writes'[f] = out_writes[f])]_vars

\* A later pass with a tracked metric has skipped its first split and called
\* the tracker for its second, which an earlier pass on the same step had
\* left without outputs.
C36_Witness ==
  /\ passes >= 2
  /\ Len(returned[0]) = 2
  /\ returned[0][1].decode_metrics = "None"
  /\ returned[0][2].decode_metrics = "metrics"
  /\ tracker_call.split = 2
  /\ HasPersistedOutputs(<<1, step_i>>)

\* ------------------------------------------------------------------------
\* Properties of the snapshot of an iteration of a decode loop.
\* ------------------------------------------------------------------------

\* C37: within an iteration of a decode loop the evaluation pass runs on the
\* snapshot the decode pass before it ran on (the same step); the snapshot is
\* not replaced while a pass runs, and is replaced only by the first restore
\* and, after the stop decision, by the release and the restore of the wait.
C37_PassesShareSnapshot ==
  /\ [][\A h \in Hosts :
          (IsDecode /\ pc[h] = "in_pass" /\ pc'[h] = "in_eval") =>
            /\ step_i' = step_i
            /\ model_states[h].step = step_i
            /\ model_states'[h] = model_states[h]]_vars
  /\ [](\A h \in Hosts :
          (IsDecode /\ pc[h] \in {"in_pass", "in_eval", "decide"}) =>
            model_states[h].step = step_i)
  /\ [][\A h \in Hosts :
          pc[h] \in {"in_pass", "in_eval"} =>
            model_states'[h] = model_states[h]]_vars
  /\ [][\A h \in Hosts :
          model_states'[h] # model_states[h] =>
            pc[h] \in {"get_model_states", "wait", "restore"}]_vars

\* The evaluation pass of the second iteration of a continuous decode loop
\* runs while the store holds a checkpoint newer than its snapshot.
C37_Witness ==
  /\ IsDecode /\ cfg.continuous_decode
  /\ pc[0] = "in_eval"
  /\ iteration[0] = 2
  /\ model_states[0].step = step_i
  /\ Latest(checkpoints) > step_i
  /\ \E i \in 1..Len(returned[0]) : returned[0][i].executor_calls > 0

\* ------------------------------------------------------------------------
\* Properties of the decode loop without continuous_decode.
\* ------------------------------------------------------------------------

\* C38: with continuous_decode false the decode loop runs one decode pass and
\* one evaluation pass and then ends: it never waits for a checkpoint, never
\* restores after its first restore and never consults the early stopping
\* function.
C38_DecodeOnce ==
  /\ [](\A h \in Hosts :
          (IsDecode /\ ~cfg.continuous_decode) =>
            /\ pc[h] \notin {"wait", "restore"}
            /\ iteration[h] <= 1
            /\ passes <= 1
            /\ decision[h].calls = 0
            /\ new_checkpoint_step[h] = None
            /\ pc[h] = "done" =>
                 /\ passes = 1
                 /\ Len(returned[h]) = NumSplits
                 /\ model_states[h].step = step_i)
  /\ [][\A h \in Hosts :
          (IsDecode /\ ~cfg.continuous_decode) =>
            /\ (pc[h] = "decide" /\ pc'[h] # "decide") => pc'[h] = "done"
            /\ (pc[h] # "done" /\ pc'[h] = "done") => pc[h] = "decide"
            /\ (pc[h] # "decide" /\ pc'[h] = "decide") => pc[h] = "in_eval"
            /\ (pc[h] # "in_eval" /\ pc'[h] = "in_eval") => pc[h] = "in_pass"
            /\ model_states'[h] # model_states[h] => pc[h] = "get_model_states"]_vars

\* A decode loop without continuous_decode has ended after a pass that made
\* calls of the decode step, while the store holds a checkpoint newer than
\* the state it decoded.
C38_Witness ==
  /\ IsDecode /\ ~cfg.continuous_decode
  /\ pc[0] = "done"
  /\ passes = 1
  /\ Latest(checkpoints) > step_i
  /\ \E i \in 1..Len(returned[0]) : returned[0][i].executor_calls > 0

====
